---- MODULE Spec2Model ----
(***************************************************************************)
(* A model of onenote-dump's session acquisition (onenote_auth.py: the     *)
(* token file, get_session, the OAuth2 redirect listener and its thread),  *)
(* of the resilient fetcher (onenote.py: _get), of the traversal           *)
(* (onenote.py: get_notebook_pages, get_sections, get_pages,               *)
(* get_page_content; core.py and interactor.py around them), of            *)
(* OneNoteInteractor.dump_notebook and of the MCP tools of main.py.        *)
(*                                                                         *)
(* Text (a URL, a request target) is a sequence of tokens, so that the     *)
(* code's substring test and its string concatenation are computed on the  *)
(* model's values as the code computes them on characters.                 *)
(***************************************************************************)
EXTENDS Integers, Sequences, FiniteSets, TLC

VARIABLES
    \* ---- the file system and the clock
    tokenFile,      \* content of token_path: [kind, tok, exp]
    now,            \* wall clock, seconds
    \* ---- the caller of get_session
    new,            \* the argument of get_session
    pc,             \* position of the caller
    session,        \* the session get_session builds and returns: [kind, tok]
    outcome,        \* how get_session ended: "none", "returned" or the error raised
    pendingExc,     \* exception in flight inside session_from_user_auth's try
    authCalls,      \* calls of session_from_user_auth
    browserOpens,   \* calls of webbrowser.open
    exchanges,      \* calls of fetch_token
    fileWrites,     \* calls of token_path.write_text
    fileAtStart,    \* tokenFile when the redirect listener was started
    fileAtCall,     \* tokenFile when get_session was called
    lastDelete,     \* how the last _delete_token ended ("none": not called)
    lastSave,       \* how the last _save_token ended ("none": not called)
    \* ---- AuthHTTPServer and its thread
    tpc,            \* position of the listener thread
    serverObj,      \* self.server: FALSE is None
    socketOpen,     \* the listening socket exists (bound, not closed)
    shutdownRequest,\* BaseServer.__shutdown_request
    isShutDown,     \* BaseServer.__is_shut_down (an Event)
    queue,          \* self.queue
    reqs,           \* requests that reached the socket, in arrival order
    served,         \* how many of reqs the serve loop has taken
    \* ---- wait_for_auth_redirect
    waitStart,      \* when the wait began
    getStart,       \* when the current queue.get began
    ignored,        \* targets dequeued and not returned
    redirectUrl,    \* what wait_for_auth_redirect returned (<<>>: nothing yet)
    stopCalls,      \* calls of AuthHTTPServer.stop() that have returned
    \* ---- _get (the resilient fetcher)
    fpc,            \* position of _get
    attempt,        \* tenacity's attempt_number
    gets,           \* session.get calls made
    sleeps,         \* the waits slept, in order
    responses,      \* status of every response received, in order
    fresult,        \* what _get returned or raised
    \* ---- get_notebook_pages (the traversal) and its consumer
    remote,         \* the remote tree: the response to a GET of each URL
    wantNotebook,   \* notebook_display_name
    wantSection,    \* section_display_name ("": None)
    gen,            \* the generator's frame: [pc, stack, url, pages, nextLink]
    demand,         \* a next() of the consumer is in progress
    notebooks,      \* the notebook list find_notebook searched
    fetched,        \* the URLs requested, in order
    yielded,        \* the pages yielded, in order
    error,          \* the exception onenote.get_notebook_pages raised
    topError,       \* the exception that reached the caller of dump_notebook
    contents,       \* the outcome of each get_page_content call, in order
    contentGets,    \* GET requests made by get_page_content
    tooMany,        \* the URLs whose request was answered 429, in order
    failed,         \* the requests of the traversal that raised, in order
    \* ---- OneNoteInteractor.dump_notebook
    startPage,      \* start_page (NoneInt: None)
    maxPages,       \* max_pages (NoneInt: None)
    dpc,            \* position of dump_notebook
    pageCounter,    \* page_counter
    pagesExported,  \* pages_exported
    added,          \* the pages given to pipe.add_page, in order
    doneCalls,      \* calls of pipe.done()
    totalPages,     \* total_pages of the returned dictionary (NoneInt: none)
    \* ---- the MCP tools of main.py
    mcp             \* the tool call: [pc, tool, args, constructed, entered,
                    \* passed, info, errors, out]

vars == <<tokenFile, now, new, pc, session, outcome, pendingExc, authCalls,
          browserOpens, exchanges, fileWrites, fileAtStart, fileAtCall, lastDelete, lastSave,
          tpc, serverObj, socketOpen, shutdownRequest, isShutDown, queue, reqs,
          served, waitStart, getStart, ignored, redirectUrl, stopCalls,
          fpc, attempt, gets, sleeps, responses, fresult,
          remote, wantNotebook, wantSection, gen, demand, notebooks, fetched,
          yielded, error, topError, contents, contentGets, tooMany,
          failed, startPage, maxPages, dpc, pageCounter, pagesExported, added,
          doneCalls, totalPages, mcp>>

authVars == <<tokenFile, now, new, pc, session, outcome, pendingExc, authCalls,
          browserOpens, exchanges, fileWrites, fileAtStart, fileAtCall, lastDelete, lastSave,
          tpc, serverObj, socketOpen, shutdownRequest, isShutDown, queue, reqs,
          served, waitStart, getStart, ignored, redirectUrl, stopCalls>>

fetchVars == <<fpc, attempt, gets, sleeps, responses, fresult>>

travVars == <<remote, wantNotebook, wantSection, gen, demand, notebooks,
              fetched, yielded, error, topError, contents, contentGets,
              tooMany, failed>>

dumpVars == <<startPage, maxPages, dpc, pageCounter, pagesExported, added,
              doneCalls, totalPages, mcp>>

Min(a, b) == IF a <= b THEN a ELSE b

Max(a, b) == IF a >= b THEN a ELSE b

(***************************************************************************)
(* Bounds of the model.                                                    *)
(***************************************************************************)
\* requests that reach the listener's socket in one run
MaxRequests == 2

\* longest step of the clock while the caller waits (seconds)
TickLen == 60

\* calls of stop() a client of the listener makes
MaxStops == 2

\* HTTP 429 responses the server gives to one _get before it stops throttling
MaxRetries == 12

(***************************************************************************)
(* Module constants of onenote_auth.py.                                    *)
(***************************************************************************)
\* redirect_uri = "http://localhost:8000/auth", as urlparse splits it
UrlScheme == <<"http">>

UrlNetloc == <<"localhost:8000">>

UrlPath == <<"/auth">>

\* datetime.timedelta(minutes=5), in seconds
ExpiryMargin == 300

\* self.queue.get(timeout=120)
QueueGetTimeout == 120

(***************************************************************************)
(* Module constants of onenote.py.                                         *)
(***************************************************************************)
\* MIN_RETRY_WAIT = timedelta(minutes=1).total_seconds()
MinRetryWait == 60

(***************************************************************************)
(* Inputs.                                                                 *)
(***************************************************************************)
\* expires_at of the stored record, in seconds from the moment of the call
ExpiresAtChoices == {0 - 60, 299, 300, 301, 900}

NoToken == [kind |-> "absent", tok |-> "none", exp |-> 0]

\* what token_path may hold when get_session is called
TokenFileChoices ==
    {NoToken}
    \cup {[kind |-> "record", tok |-> "stored", exp |-> e] : e \in ExpiresAtChoices}
    \cup {[kind |-> k, tok |-> "none", exp |-> 0] :
             k \in {"notutf8", "notjson", "notobject", "noexpiry"}}

\* request targets (path?query) a client may send: the redirect itself, a
\* favicon request, a request whose query mentions the redirect path, and a
\* longer path that begins like the redirect path
RequestTargets ==
    { <<"/auth", "?", "code=c1">>,
      <<"/favicon.ico">>,
      <<"/favicon.ico", "?", "next=", "/auth">>,
      <<"/auth", "orize">> }

(***************************************************************************)
(* The token file: _load_token, _delete_token, _save_token.                *)
(***************************************************************************)
\* token_path.unlink() inside _delete_token: FileNotFoundError and any other
\* OSError are both caught and logged, so the file stays when unlink fails
DeleteToken(f, unlinkFails) ==
    IF f.kind = "absent" \/ unlinkFails THEN f ELSE NoToken

\* how _delete_token ends: it returns in all three cases, after a debug or an
\* error log line
DeleteResult(f, unlinkFails) ==
    IF f.kind = "absent" THEN "absent"
    ELSE IF unlinkFails THEN "logged"
    ELSE "deleted"

\* how _load_token ends on a file: "token" (json.loads returned a value), or
\* the exception that leaves it
LoadOutcome(f) ==
    CASE f.kind = "absent"  -> "FileNotFoundError"
      [] f.kind = "notutf8" -> "UnicodeDecodeError"
      [] f.kind = "notjson" -> "IOError"
      [] OTHER              -> "token"

\* a _load_token that deletes the file on every error
FileAfterLoad_DeleteOnAnyError(f, unlinkFails) ==
    IF LoadOutcome(f) # "token" THEN DeleteToken(f, unlinkFails) ELSE f

\* the file after _load_token: only the JSONDecodeError/IOError branch deletes
FileAfterLoad(f, unlinkFails) ==
    IF LoadOutcome(f) = "IOError" THEN DeleteToken(f, unlinkFails) ELSE f

\* token_path.write_text(json.dumps(token)) inside _save_token: an IOError is
\* caught and logged
SaveToken(f, token, writeFails) ==
    IF writeFails THEN f ELSE [kind |-> "record", tok |-> token.tok, exp |-> token.exp]

\* how _save_token ends: it returns in both cases
SaveResult(writeFails) == IF writeFails THEN "logged" ELSE "written"

(***************************************************************************)
(* session_from_saved_token and get_session.                               *)
(***************************************************************************)
\* the comparison with a margin of ten minutes instead of five
TokenExpired_TenMinuteMargin(exp, t) == exp < t + 2 * ExpiryMargin

\* the comparison without the safety margin
TokenExpired_NoMargin(exp, t) == exp < t

\* expires < datetime.datetime.now() + datetime.timedelta(minutes=5)
TokenExpired(exp, t) == exp < t + ExpiryMargin

\* how session_from_saved_token(new=False) ends once _load_token returned a
\* value: token["expires_at"] on the loaded JSON value, then the comparison
SavedTokenOutcome(f, t) ==
    CASE f.kind = "notobject" -> "TypeError"
      [] f.kind = "noexpiry"  -> "KeyError"
      [] f.kind = "record" /\ TokenExpired(f.exp, t) -> "TokenExpiredError"
      [] OTHER -> "session"

\* get_session catches (IOError, TokenExpiredError); FileNotFoundError is an
\* IOError, UnicodeDecodeError, TypeError and KeyError are not
CaughtByGetSession(e) == e \in {"IOError", "FileNotFoundError", "TokenExpiredError"}

NoSession == [kind |-> "none", tok |-> "none"]

\* get_session(new=True): session_from_saved_token deletes the token and
\* raises TokenExpiredError, which get_session turns into user authentication
GetSessionNew ==
    /\ pc = "call"
    /\ new
    /\ \E unlinkFails \in BOOLEAN :
          /\ tokenFile' = DeleteToken(tokenFile, unlinkFails)
          /\ lastDelete' = DeleteResult(tokenFile, unlinkFails)
    /\ pc' = "auth"
    /\ UNCHANGED <<lastSave, now, new, session, outcome, pendingExc, authCalls, browserOpens,
                   exchanges, fileWrites, fileAtStart, fileAtCall, tpc, serverObj,
                   socketOpen, shutdownRequest, isShutDown, queue, reqs, served,
                   waitStart, getStart, ignored, redirectUrl, stopCalls>>
    /\ UNCHANGED fetchVars
    /\ UNCHANGED travVars
    /\ UNCHANGED dumpVars

\* get_session(new=False): load the token, compare its expiry, and either
\* return a session on it, go to user authentication, or fail
GetSessionSaved ==
    /\ pc = "call"
    /\ ~new
    /\ \E unlinkFails \in BOOLEAN :
          /\ tokenFile' = FileAfterLoad(tokenFile, unlinkFails)
          /\ lastDelete' = IF LoadOutcome(tokenFile) = "IOError"
                           THEN DeleteResult(tokenFile, unlinkFails)
                           ELSE lastDelete
    /\ UNCHANGED lastSave
    /\ LET e == IF LoadOutcome(tokenFile) = "token"
                THEN SavedTokenOutcome(tokenFile, now)
                ELSE LoadOutcome(tokenFile)
       IN  \/ /\ e = "session"
              /\ session' = [kind |-> "saved", tok |-> tokenFile.tok]
              /\ outcome' = "returned"
              /\ pc' = "done"
           \/ /\ CaughtByGetSession(e)
              /\ pc' = "auth"
              /\ UNCHANGED <<session, outcome>>
           \/ /\ e # "session"
              /\ ~CaughtByGetSession(e)
              /\ outcome' = e
              /\ pc' = "done"
              /\ UNCHANGED session
    /\ UNCHANGED <<now, new, pendingExc, authCalls, browserOpens,
                   exchanges, fileWrites, fileAtStart, fileAtCall, tpc, serverObj,
                   socketOpen, shutdownRequest, isShutDown, queue, reqs, served,
                   waitStart, getStart, ignored, redirectUrl, stopCalls>>
    /\ UNCHANGED fetchVars
    /\ UNCHANGED travVars
    /\ UNCHANGED dumpVars

(***************************************************************************)
(* AuthHTTPServer: text helpers of wait_for_auth_redirect.                 *)
(***************************************************************************)
\* Python's  sub in text  on strings: sub occurs in text as a contiguous run
Contains(sub, text) ==
    \E i \in 1..(Len(text) - Len(sub) + 1) :
        SubSeq(text, i, i + Len(sub) - 1) = sub

\* a loop test that lets any dequeued target end the wait
Matches_AnyTarget(path) == TRUE

\* the loop test of wait_for_auth_redirect, negated: self.url.path in path
Matches(path) == Contains(UrlPath, path)

\* the URL rebuilt without the query string of the target
FullRedirectUrl_NoQuery(path) == UrlScheme \o <<"://">> \o UrlNetloc \o <<Head(path)>>

\* f"{self.url.scheme}://{self.url.netloc}{path}"
FullRedirectUrl(path) == UrlScheme \o <<"://">> \o UrlNetloc \o path

\* one deadline for the whole wait instead of one per queue.get
GetDeadline_WholeWait == waitStart + QueueGetTimeout

\* the deadline of the queue.get(timeout=120) in progress
GetDeadline == getStart + QueueGetTimeout

(***************************************************************************)
(* session_from_user_auth, the caller's side.                              *)
(***************************************************************************)
\* server = AuthHTTPServer(redirect_uri); server.start(): the thread is
\* created and started, nothing waits for it to listen
AuthStart ==
    /\ pc = "auth"
    /\ authCalls' = authCalls + 1
    /\ fileAtStart' = tokenFile
    /\ tpc' = "created"
    /\ pc' = "sleeping"
    /\ UNCHANGED <<tokenFile, now, new, session, outcome, pendingExc, browserOpens,
                   exchanges, fileWrites, fileAtCall, lastDelete, lastSave, serverObj,
                   socketOpen, shutdownRequest, isShutDown, queue, reqs, served,
                   waitStart, getStart, ignored, redirectUrl, stopCalls>>
    /\ UNCHANGED fetchVars
    /\ UNCHANGED travVars
    /\ UNCHANGED dumpVars

\* sleep(1) ends; the authorization URL is built and webbrowser.open is
\* called: it opens the browser, or raises, which leads to the finally block
OpenBrowser ==
    /\ pc = "sleeping"
    /\ browserOpens' = browserOpens + 1
    /\ \/ /\ pc' = "waiting"
          /\ waitStart' = now
          /\ getStart' = now
          /\ UNCHANGED pendingExc
       \/ /\ pc' = "stop"
          /\ pendingExc' = "BrowserError"
          /\ UNCHANGED <<waitStart, getStart>>
    /\ UNCHANGED <<tokenFile, now, new, session, outcome, authCalls,
                   exchanges, fileWrites, fileAtStart, fileAtCall, lastDelete, lastSave, tpc, serverObj,
                   socketOpen, shutdownRequest, isShutDown, queue, reqs, served,
                   ignored, redirectUrl, stopCalls>>
    /\ UNCHANGED fetchVars
    /\ UNCHANGED travVars
    /\ UNCHANGED dumpVars

\* one turn of the loop of wait_for_auth_redirect on a non-empty queue:
\* queue.get returns at once; a matching target ends the wait with the full
\* URL, any other target is dropped and a new queue.get(timeout=120) begins
WaitGet ==
    /\ pc = "waiting"
    /\ queue # <<>>
    /\ queue' = Tail(queue)
    /\ IF Matches(Head(queue))
       THEN /\ redirectUrl' = FullRedirectUrl(Head(queue))
            /\ pc' = "exchange"
            /\ UNCHANGED <<ignored, getStart>>
       ELSE /\ ignored' = Append(ignored, Head(queue))
            /\ getStart' = now
            /\ UNCHANGED <<redirectUrl, pc>>
    /\ UNCHANGED <<tokenFile, now, new, session, outcome, pendingExc, authCalls,
                   browserOpens, exchanges, fileWrites, fileAtStart, fileAtCall, lastDelete, lastSave,
                   tpc, serverObj, socketOpen, shutdownRequest, isShutDown, reqs,
                   served, waitStart, stopCalls>>
    /\ UNCHANGED fetchVars
    /\ UNCHANGED travVars
    /\ UNCHANGED dumpVars

\* queue.get(timeout=120) raises Empty: nothing was put for 120 s since this
\* get began; wait_for_auth_redirect raises TimeoutError
WaitTimeout ==
    /\ pc = "waiting"
    /\ queue = <<>>
    /\ now >= GetDeadline
    /\ pendingExc' = "TimeoutError"
    /\ pc' = "stop"
    /\ UNCHANGED <<tokenFile, now, new, session, outcome, authCalls,
                   browserOpens, exchanges, fileWrites, fileAtStart, fileAtCall, lastDelete, lastSave,
                   tpc, serverObj, socketOpen, shutdownRequest, isShutDown, queue,
                   reqs, served, waitStart, getStart, ignored, redirectUrl, stopCalls>>
    /\ UNCHANGED fetchVars
    /\ UNCHANGED travVars
    /\ UNCHANGED dumpVars

\* time passes while the caller is blocked in queue.get on an empty queue, at
\* most up to the deadline of that get
Tick ==
    /\ pc = "waiting"
    /\ queue = <<>>
    /\ now < GetDeadline
    /\ now' = Min(now + TickLen, GetDeadline)
    /\ UNCHANGED <<tokenFile, new, pc, session, outcome, pendingExc, authCalls,
                   browserOpens, exchanges, fileWrites, fileAtStart, fileAtCall, lastDelete, lastSave,
                   tpc, serverObj, socketOpen, shutdownRequest, isShutDown, queue,
                   reqs, served, waitStart, getStart, ignored, redirectUrl, stopCalls>>
    /\ UNCHANGED fetchVars
    /\ UNCHANGED travVars
    /\ UNCHANGED dumpVars

\* s.fetch_token(...): the token endpoint issues a token, or the exchange
\* fails and the exception goes to the finally block
Exchange ==
    /\ pc = "exchange"
    /\ exchanges' = exchanges + 1
    /\ \/ /\ pc' = "save"
          /\ UNCHANGED pendingExc
       \/ /\ pc' = "stop"
          /\ pendingExc' = "ExchangeError"
    /\ UNCHANGED <<tokenFile, now, new, session, outcome, authCalls,
                   browserOpens, fileWrites, fileAtStart, fileAtCall, lastDelete, lastSave,
                   tpc, serverObj, socketOpen, shutdownRequest, isShutDown, queue,
                   reqs, served, waitStart, getStart, ignored, redirectUrl, stopCalls>>
    /\ UNCHANGED fetchVars
    /\ UNCHANGED travVars
    /\ UNCHANGED dumpVars

\* the token the endpoint issued at time t
FreshToken(t) == [tok |-> "fresh", exp |-> t + 3600]

\* _save_token(token): write_text, whose IOError is caught and logged
Save ==
    /\ pc = "save"
    /\ fileWrites' = fileWrites + 1
    /\ \E writeFails \in BOOLEAN :
          /\ tokenFile' = SaveToken(tokenFile, FreshToken(now), writeFails)
          /\ lastSave' = SaveResult(writeFails)
    /\ session' = [kind |-> "fresh", tok |-> "fresh"]
    /\ pc' = "stop"
    /\ UNCHANGED <<now, new, outcome, pendingExc, authCalls,
                   browserOpens, exchanges, fileAtStart, fileAtCall, lastDelete,
                   tpc, serverObj, socketOpen, shutdownRequest, isShutDown, queue,
                   reqs, served, waitStart, getStart, ignored, redirectUrl, stopCalls>>
    /\ UNCHANGED fetchVars
    /\ UNCHANGED travVars
    /\ UNCHANGED dumpVars

\* a finally block that swallows the pending exception
AuthOutcome_Swallowed == "returned"

\* how session_from_user_auth (and so get_session) ends after the finally
\* block: the pending exception, or the return of s
AuthOutcome == IF pendingExc # "none" THEN pendingExc ELSE "returned"

\* finally: server.stop(), first half: if self.server is None nothing is done
\* and the function is left; else shutdown() sets the request flag
StopBegin ==
    /\ pc = "stop"
    /\ IF serverObj
       THEN /\ shutdownRequest' = TRUE
            /\ pc' = "shutdown"
            /\ UNCHANGED <<outcome, stopCalls>>
       ELSE /\ outcome' = AuthOutcome
            /\ pc' = "done"
            /\ stopCalls' = stopCalls + 1
            /\ UNCHANGED shutdownRequest
    /\ UNCHANGED <<tokenFile, now, new, session, pendingExc, authCalls,
                   browserOpens, exchanges, fileWrites, fileAtStart, fileAtCall, lastDelete, lastSave,
                   tpc, serverObj, socketOpen, isShutDown, queue,
                   reqs, served, waitStart, getStart, ignored, redirectUrl>>
    /\ UNCHANGED fetchVars
    /\ UNCHANGED travVars
    /\ UNCHANGED dumpVars

\* server.stop(), second half: shutdown() returns once the event is set, then
\* server_close() closes the socket and the function is left
StopEnd ==
    /\ pc = "shutdown"
    /\ isShutDown
    /\ socketOpen' = FALSE
    /\ outcome' = AuthOutcome
    /\ stopCalls' = stopCalls + 1
    /\ pc' = "done"
    /\ UNCHANGED <<tokenFile, now, new, session, pendingExc, authCalls,
                   browserOpens, exchanges, fileWrites, fileAtStart, fileAtCall, lastDelete, lastSave,
                   tpc, serverObj, shutdownRequest, isShutDown, queue,
                   reqs, served, waitStart, getStart, ignored, redirectUrl>>
    /\ UNCHANGED fetchVars
    /\ UNCHANGED travVars
    /\ UNCHANGED dumpVars

(***************************************************************************)
(* AuthHTTPServer._run_server, the listener thread, and do_GET.            *)
(***************************************************************************)
\* self.server = HTTPServer(("", port), _AuthServerHandler): the constructor
\* binds and listens, or raises (the port is taken) and the thread dies with
\* self.server still None
ThreadBind ==
    /\ tpc = "created"
    /\ \/ /\ serverObj' = TRUE
          /\ socketOpen' = TRUE
          /\ tpc' = "bound"
       \/ /\ tpc' = "dead"
          /\ UNCHANGED <<serverObj, socketOpen>>
    /\ UNCHANGED <<tokenFile, now, new, pc, session, outcome, pendingExc, authCalls,
                   browserOpens, exchanges, fileWrites, fileAtStart, fileAtCall, lastDelete, lastSave,
                   shutdownRequest, isShutDown, queue, reqs, served,
                   waitStart, getStart, ignored, redirectUrl, stopCalls>>
    /\ UNCHANGED fetchVars
    /\ UNCHANGED travVars
    /\ UNCHANGED dumpVars

\* serve_forever() is entered: self.__is_shut_down.clear()
ServeEnter ==
    /\ tpc = "bound"
    /\ isShutDown' = FALSE
    /\ tpc' = "loop"
    /\ UNCHANGED <<tokenFile, now, new, pc, session, outcome, pendingExc, authCalls,
                   browserOpens, exchanges, fileWrites, fileAtStart, fileAtCall, lastDelete, lastSave,
                   serverObj, socketOpen, shutdownRequest, queue, reqs, served,
                   waitStart, getStart, ignored, redirectUrl, stopCalls>>
    /\ UNCHANGED fetchVars
    /\ UNCHANGED travVars
    /\ UNCHANGED dumpVars

\* the serve loop sees the shutdown request and leaves: the finally block of
\* serve_forever resets the request and sets the event
ServeExit ==
    /\ tpc = "loop"
    /\ shutdownRequest
    /\ shutdownRequest' = FALSE
    /\ isShutDown' = TRUE
    /\ tpc' = "exited"
    /\ UNCHANGED <<tokenFile, now, new, pc, session, outcome, pendingExc, authCalls,
                   browserOpens, exchanges, fileWrites, fileAtStart, fileAtCall, lastDelete, lastSave,
                   serverObj, socketOpen, queue, reqs, served,
                   waitStart, getStart, ignored, redirectUrl, stopCalls>>
    /\ UNCHANGED fetchVars
    /\ UNCHANGED travVars
    /\ UNCHANGED dumpVars

\* _run_server logs "AuthHTTPServer stopped." and the thread ends
ThreadEnd ==
    /\ tpc = "exited"
    /\ tpc' = "dead"
    /\ UNCHANGED <<tokenFile, now, new, pc, session, outcome, pendingExc, authCalls,
                   browserOpens, exchanges, fileWrites, fileAtStart, fileAtCall, lastDelete, lastSave,
                   serverObj, socketOpen, shutdownRequest, isShutDown, queue, reqs,
                   served, waitStart, getStart, ignored, redirectUrl, stopCalls>>
    /\ UNCHANGED fetchVars
    /\ UNCHANGED travVars
    /\ UNCHANGED dumpVars

\* the request do_GET is working on
Current == reqs[served]

\* the serve loop takes the next request; do_GET sends the status line and
\* the headers: send_response(200), send_header, end_headers
HandleHeaders ==
    /\ tpc = "loop"
    /\ ~shutdownRequest
    /\ served < Len(reqs)
    /\ served' = served + 1
    /\ reqs' = [reqs EXCEPT ![served + 1].resp = "headers"]
    /\ tpc' = "put"
    /\ UNCHANGED <<tokenFile, now, new, pc, session, outcome, pendingExc, authCalls,
                   browserOpens, exchanges, fileWrites, fileAtStart, fileAtCall, lastDelete, lastSave,
                   serverObj, socketOpen, shutdownRequest, isShutDown, queue,
                   waitStart, getStart, ignored, redirectUrl, stopCalls>>
    /\ UNCHANGED fetchVars
    /\ UNCHANGED travVars
    /\ UNCHANGED dumpVars

\* a put that goes to the front of the queue
Put_Front(q, item) == <<item>> \o q

\* Queue.put(item) on the unbounded FIFO queue of the listener: the item goes
\* to the back and the call never blocks
Put(q, item) == Append(q, item)

\* do_GET: self.server.queue.put(self.path)
HandlePut ==
    /\ tpc = "put"
    /\ queue' = Put(queue, Current.path)
    /\ tpc' = "body"
    /\ UNCHANGED <<tokenFile, now, new, pc, session, outcome, pendingExc, authCalls,
                   browserOpens, exchanges, fileWrites, fileAtStart, fileAtCall, lastDelete, lastSave,
                   serverObj, socketOpen, shutdownRequest, isShutDown, reqs, served,
                   waitStart, getStart, ignored, redirectUrl, stopCalls>>
    /\ UNCHANGED fetchVars
    /\ UNCHANGED travVars
    /\ UNCHANGED dumpVars

\* do_GET: self.wfile.write(message), then back to the serve loop
HandleBody ==
    /\ tpc = "body"
    /\ reqs' = [reqs EXCEPT ![served].resp = "body"]
    /\ tpc' = "loop"
    /\ UNCHANGED <<tokenFile, now, new, pc, session, outcome, pendingExc, authCalls,
                   browserOpens, exchanges, fileWrites, fileAtStart, fileAtCall, lastDelete, lastSave,
                   serverObj, socketOpen, shutdownRequest, isShutDown, queue, served,
                   waitStart, getStart, ignored, redirectUrl, stopCalls>>
    /\ UNCHANGED fetchVars
    /\ UNCHANGED travVars
    /\ UNCHANGED dumpVars

\* the network interfaces of the machine a client can send a request to
Interfaces == {"loopback", "external"}

\* address[0] in _run_server: the empty host, which is every interface
BindAddress == ""

\* a socket bound to host receives the connections made to iface
Accepts(host, iface) == host = "" \/ (host = "localhost" /\ iface = "loopback")

\* the requests clients may send: every target to the loopback interface,
\* and the redirect itself to an interface other hosts can reach
ClientRequests ==
    {[path |-> t, iface |-> "loopback"] : t \in RequestTargets}
       \cup {[path |-> <<"/auth", "?", "code=c1">>, iface |-> "external"]}

\* a client connects to the listening socket and sends GET target
ClientRequest ==
    /\ socketOpen
    /\ Len(reqs) < MaxRequests
    /\ \E r \in ClientRequests :
          /\ Accepts(BindAddress, r.iface)
          /\ reqs' = Append(reqs, [path |-> r.path, resp |-> "none",
                                   iface |-> r.iface])
    /\ UNCHANGED <<tokenFile, now, new, pc, session, outcome, pendingExc, authCalls,
                   browserOpens, exchanges, fileWrites, fileAtStart, fileAtCall, lastDelete, lastSave,
                   tpc, serverObj, socketOpen, shutdownRequest, isShutDown, queue,
                   served, waitStart, getStart, ignored, redirectUrl, stopCalls>>
    /\ UNCHANGED fetchVars
    /\ UNCHANGED travVars
    /\ UNCHANGED dumpVars

(***************************************************************************)
(* The specification of session acquisition.                               *)
(***************************************************************************)
FetchIdle ==
    /\ fpc = "off"
    /\ attempt = 0
    /\ gets = 0
    /\ sleeps = <<>>
    /\ responses = <<>>
    /\ fresult = [status |-> 0, body |-> "none"]

\* no traversal is running
NoError == [type |-> "none", msg |-> <<>>]

\* None where an integer is expected
NoneInt == 0 - 1

\* no MCP tool has been called
NoTool ==
    [pc |-> "off", tool |-> "none",
     args |-> [notebook_name |-> "", section_name |-> "",
               max_pages |-> NoneInt, start_page |-> NoneInt,
               new_session |-> FALSE],
     constructed |-> FALSE, entered |-> FALSE,
     passed |-> [notebook_name |-> "", section_name |-> "",
                 max_pages |-> NoneInt, start_page |-> NoneInt,
                 new_session |-> FALSE],
     info |-> <<>>, errors |-> <<>>,
     out |-> [kind |-> "none", value |-> <<>>]]

\* dump_notebook is not running
DumpIdle ==
    /\ startPage = NoneInt
    /\ maxPages = NoneInt
    /\ dpc = "off"
    /\ pageCounter = 0
    /\ pagesExported = 0
    /\ added = <<>>
    /\ doneCalls = 0
    /\ totalPages = NoneInt
    /\ mcp = NoTool

TraverseIdle ==
    /\ remote = <<>>
    /\ wantNotebook = ""
    /\ wantSection = ""
    /\ gen = [pc |-> "off", stack |-> <<>>, url |-> "", pages |-> <<>>,
              nextLink |-> ""]
    /\ demand = FALSE
    /\ notebooks = <<>>
    /\ fetched = <<>>
    /\ yielded = <<>>
    /\ error = NoError
    /\ topError = NoError
    /\ contents = <<>>
    /\ contentGets = 0
    /\ tooMany = <<>>
    /\ failed = <<>>

\* the state before anything ran, but for the token file, the argument and the
\* caller's position
InitCommon ==
    /\ fileAtCall = tokenFile
    /\ lastDelete = "none"
    /\ lastSave = "none"
    /\ fileAtStart = NoToken
    /\ now = 0
    /\ session = NoSession
    /\ outcome = "none"
    /\ pendingExc = "none"
    /\ authCalls = 0
    /\ browserOpens = 0
    /\ exchanges = 0
    /\ fileWrites = 0
    /\ tpc = "none"
    /\ serverObj = FALSE
    /\ socketOpen = FALSE
    /\ shutdownRequest = FALSE
    /\ isShutDown = FALSE
    /\ queue = <<>>
    /\ reqs = <<>>
    /\ served = 0
    /\ waitStart = 0
    /\ getStart = 0
    /\ ignored = <<>>
    /\ redirectUrl = <<>>
    /\ stopCalls = 0

\* get_session(new) is called on some token file
Init ==
    /\ tokenFile \in TokenFileChoices
    /\ new \in BOOLEAN
    /\ pc = "call"
    /\ InitCommon
    /\ FetchIdle
    /\ TraverseIdle
    /\ DumpIdle

Next ==
    \/ GetSessionNew
    \/ GetSessionSaved
    \/ AuthStart
    \/ OpenBrowser
    \/ WaitGet
    \/ WaitTimeout
    \/ Tick
    \/ Exchange
    \/ Save
    \/ StopBegin
    \/ StopEnd
    \/ ThreadBind
    \/ ServeEnter
    \/ ServeExit
    \/ ThreadEnd
    \/ HandleHeaders
    \/ HandlePut
    \/ HandleBody
    \/ ClientRequest

Spec == Init /\ [][Next]_vars

(***************************************************************************)
(* The listener's interface used by any client: stop() may be called on an *)
(* AuthHTTPServer that was never started, and again after it returned.     *)
(***************************************************************************)
\* an AuthHTTPServer was constructed and stop() is called before start()
InitNeverStarted ==
    /\ tokenFile = NoToken
    /\ new = FALSE
    /\ pc = "stop"
    /\ InitCommon
    /\ FetchIdle
    /\ TraverseIdle
    /\ DumpIdle

\* stop() is called once more after a stop() that returned
StopAgain ==
    /\ pc = "done"
    /\ stopCalls >= 1
    /\ stopCalls < MaxStops
    /\ pc' = "stop"
    /\ UNCHANGED <<tokenFile, now, new, session, outcome, pendingExc, authCalls,
                   browserOpens, exchanges, fileWrites, fileAtStart, fileAtCall, lastDelete, lastSave,
                   tpc, serverObj, socketOpen, shutdownRequest, isShutDown, queue,
                   reqs, served, waitStart, getStart, ignored, redirectUrl, stopCalls>>
    /\ UNCHANGED fetchVars
    /\ UNCHANGED travVars
    /\ UNCHANGED dumpVars

NextListener == Next \/ StopAgain

SpecListener == (Init \/ InitNeverStarted) /\ [][NextListener]_vars

(***************************************************************************)
(* An export run: OneNoteInteractor() constructs an OneNoteCore, which     *)
(* calls get_session(False); dump_notebook(..., new_session=True) then     *)
(* constructs a second OneNoteCore, which calls get_session(True).  With   *)
(* new_session=False dump_notebook makes no further call.                  *)
(***************************************************************************)
\* self.queue = Queue() in AuthHTTPServer.__init__: each listener object has
\* a queue of its own, empty at first
NewQueue == <<>>

\* dump_notebook(new_session=True) after the constructor returned: a new
\* OneNoteCore calls get_session(True), whose AuthHTTPServer, if one is made,
\* is a new object, and whose wait starts anew.  The run is followed from the
\* states where the thread of the first listener, if there was one, has ended.
DumpNewSession ==
    /\ pc = "done"
    /\ outcome = "returned"
    /\ ~new
    /\ tpc \in {"none", "dead"}
    /\ ~socketOpen
    /\ new' = TRUE
    /\ pc' = "call"
    /\ outcome' = "none"
    /\ session' = NoSession
    /\ fileAtCall' = tokenFile
    /\ lastDelete' = "none"
    /\ lastSave' = "none"
    /\ tpc' = "none"
    /\ serverObj' = FALSE
    /\ shutdownRequest' = FALSE
    /\ isShutDown' = FALSE
    /\ queue' = NewQueue
    /\ reqs' = <<>>
    /\ served' = 0
    /\ ignored' = <<>>
    /\ redirectUrl' = <<>>
    /\ fileAtStart' = NoToken
    /\ waitStart' = 0
    /\ getStart' = 0
    /\ UNCHANGED <<tokenFile, now, pendingExc, authCalls, browserOpens, exchanges,
                   fileWrites, socketOpen, stopCalls>>
    /\ UNCHANGED fetchVars
    /\ UNCHANGED travVars
    /\ UNCHANGED dumpVars

\* OneNoteInteractor() is called on some token file
InitRun ==
    /\ tokenFile \in TokenFileChoices
    /\ new = FALSE
    /\ pc = "call"
    /\ InitCommon
    /\ FetchIdle
    /\ TraverseIdle
    /\ DumpIdle

NextRun == Next \/ DumpNewSession

SpecRun == InitRun /\ [][NextRun]_vars

\* the runs that start without a token file: the constructor authenticates
\* interactively, and so does dump_notebook(new_session=True), each with a
\* listener of its own
InitTwoListeners ==
    /\ InitRun
    /\ tokenFile = NoToken

SpecTwoListeners == InitTwoListeners /\ [][NextRun]_vars

(***************************************************************************)
(* The resilient fetcher: onenote.py, _get.                                *)
(***************************************************************************)
\* what session.get(url) can produce: a response with a status and a body,
\* or a transport failure (status 0: requests raises ConnectionError)
Statuses == {200, 204, 404, 429, 500}

Bodies == {"b1", "b2"}

Responses ==
    {[status |-> st, body |-> b] : st \in Statuses, b \in Bodies}
    \cup {[status |-> 0, body |-> "ConnectionError"]}

\* r.raise_for_status() raises HTTPError for 400 <= status < 600
IsHttpError(r) == r.status >= 400 /\ r.status < 600

\* the exception one attempt of _inner_get raises on response r, "none" when
\* it returns r
AttemptError(r) ==
    IF r.status = 0 THEN "ConnectionError"
    ELSE IF IsHttpError(r) THEN "HTTPError"
    ELSE "none"

\* a fetcher that retries nothing
IsTooManyRequests_Never(r) == FALSE

\* a fetcher that also retries the other HTTP error statuses
IsTooManyRequests_AnyHttpError(r) == IsHttpError(r)

\* _is_too_many_requests_condition_only(e), for the exception raised on r
IsTooManyRequests(r) == AttemptError(r) = "HTTPError" /\ r.status = 429

\* a retry limit: stop_after_attempt(3)
StopAfterThree(attemptNumber) == attemptNumber >= 3

\* @retry is given no stop argument: tenacity's default stop_never
StopNever(attemptNumber) == FALSE

RECURSIVE Pow2(_)
Pow2(n) == IF n <= 0 THEN 1 ELSE 2 * Pow2(n - 1)

\* wait_exponential(min=MIN_RETRY_WAIT, max=MIN_RETRY_WAIT * 10), multiplier 1
\* and base 2 by default: max(max(0, min), min(2 ** (attempt_number - 1), max))
WaitExponential(attemptNumber) ==
    Max(Max(0, MinRetryWait), Min(Pow2(attemptNumber - 1), MinRetryWait * 10))

\* one attempt of _inner_get: session.get, raise_for_status, and tenacity's
\* decision: return the response, re-raise the error, or sleep and retry
FetchAttempt ==
    /\ fpc = "get"
    /\ \E r \in Responses :
          /\ r.status = 429 => attempt <= MaxRetries
          /\ gets' = gets + 1
          /\ responses' = Append(responses, r)
          /\ IF AttemptError(r) = "none"
             THEN /\ fpc' = "returned"
                  /\ fresult' = r
             ELSE IF IsTooManyRequests(r) /\ ~StopNever(attempt)
             THEN /\ fpc' = "sleeping"
                  /\ UNCHANGED fresult
             ELSE /\ fpc' = "raised"
                  /\ fresult' = r
    /\ UNCHANGED <<attempt, sleeps>>
    /\ UNCHANGED authVars
    /\ UNCHANGED travVars
    /\ UNCHANGED dumpVars

\* tenacity sleeps the computed wait, then makes the next attempt
FetchSleep ==
    /\ fpc = "sleeping"
    /\ sleeps' = Append(sleeps, WaitExponential(attempt))
    /\ attempt' = attempt + 1
    /\ fpc' = "get"
    /\ UNCHANGED <<gets, responses, fresult>>
    /\ UNCHANGED authVars
    /\ UNCHANGED travVars
    /\ UNCHANGED dumpVars

\* the session is there and nothing of the authentication is running
AuthIdle ==
    /\ tokenFile = NoToken
    /\ new = FALSE
    /\ pc = "off"
    /\ InitCommon

\* _get(s, url) is called
InitFetch ==
    /\ AuthIdle
    /\ TraverseIdle
    /\ DumpIdle
    /\ fpc = "get"
    /\ attempt = 1
    /\ gets = 0
    /\ sleeps = <<>>
    /\ responses = <<>>
    /\ fresult = [status |-> 0, body |-> "none"]

NextFetch == FetchAttempt \/ FetchSleep

SpecFetch == InitFetch /\ [][NextFetch]_vars

(***************************************************************************)
(* The traversal: onenote.get_notebook_pages and the generators under it,  *)
(* OneNoteCore.get_notebook_pages around it, and get_page_content.         *)
(*                                                                         *)
(* A JSON object is a record; a key the object does not carry is the empty *)
(* string, which the code's tests (if url:, 'pagesUrl' not in ...) treat   *)
(* like an absent key for the objects below.                               *)
(***************************************************************************)
Page(title, contentUrl) == [title |-> title, contentUrl |-> contentUrl]

Container(name, sectionsUrl, sectionGroupsUrl) ==
    [kind |-> "container", displayName |-> name, sectionsUrl |-> sectionsUrl,
     sectionGroupsUrl |-> sectionGroupsUrl, pagesUrl |-> ""]

Section(name, pagesUrl) ==
    [kind |-> "section", displayName |-> name, sectionsUrl |-> "",
     sectionGroupsUrl |-> "", pagesUrl |-> pagesUrl]

\* Python's None where a notebook is expected
None ==
    [kind |-> "None", displayName |-> "", sectionsUrl |-> "",
     sectionGroupsUrl |-> "", pagesUrl |-> ""]

\* what _get_json gives for a URL: a JSON object with a value array and
\* possibly an @odata.nextLink, a bare JSON array, a JSON object without
\* value, or an exception
Collection(value, link) ==
    [kind |-> "dict", value |-> value, next |-> link, err |-> ""]

BareList(value) == [kind |-> "list", value |-> value, next |-> "", err |-> ""]

NoValue == [kind |-> "novalue", value |-> <<>>, next |-> "", err |-> ""]

Failure(e) == [kind |-> "error", value |-> <<>>, next |-> "", err |-> e]

\* ---- the remote trees
AlphaP1 == Page("Alpha-p1", "alpha-p1/content")
AlphaP2 == Page("Alpha-p2", "alpha-p2/content")
BetaP1 == Page("Beta-p1", "beta-p1/content")
BetaP2 == Page("Beta-p2", "beta-p2/content")
NotesP1 == Page("Notes-p1", "")
OldP1 == Page("Old-p1", "old-p1/content")
LowerP1 == Page("Lower-p1", "lower-p1/content")
DiaryP1 == Page("Diary-p1", "diary-p1/content")

Work == Container("Work", "work/sections", "work/sectionGroups")
Home == Container("Home", "home/sections", "")
Projects == Container("Projects", "projects/sections", "projects/sectionGroups")
Archive == Container("Archive", "archive/sections", "")
Alpha == Section("Alpha", "alpha/pages")
Beta == Section("Beta", "beta/pages")
Notes == Section("Notes", "notes/pages")
OldBeta == Section("Beta", "old/pages")
LowerBeta == Section("beta", "lower/pages")
Journal == Container("Journal", "journal/sections", "")
Diary == Section("Diary", "diary/pages")

NotebooksUrl == "notebooks"

Urls ==
    {NotebooksUrl, "work/sections", "work/sectionGroups", "home/sections",
     "projects/sections", "projects/sectionGroups", "archive/sections",
     "alpha/pages", "beta/pages", "beta/pages?skip=1", "notes/pages",
     "old/pages", "lower/pages", "journal/sections", "diary/pages"}

\* Notebook Work with the top-level Section Notes and the SectionGroup
\* Projects (Sections Alpha and Beta, Beta's pages in two linked responses);
\* Projects holds the SectionGroup Archive with a second Section named Beta
\* and a Section named beta
DeepTree ==
    [u \in Urls |->
        CASE u = NotebooksUrl -> Collection(<<Home, Work>>, "")
          [] u = "work/sections" -> Collection(<<Notes>>, "")
          [] u = "work/sectionGroups" -> Collection(<<Projects>>, "")
          [] u = "home/sections" -> Collection(<<>>, "")
          [] u = "projects/sections" -> Collection(<<Alpha, Beta>>, "")
          [] u = "projects/sectionGroups" -> Collection(<<Archive>>, "")
          [] u = "archive/sections" -> Collection(<<OldBeta, LowerBeta>>, "")
          [] u = "alpha/pages" -> Collection(<<AlphaP1, AlphaP2>>, "")
          [] u = "beta/pages" -> Collection(<<BetaP1>>, "beta/pages?skip=1")
          [] u = "beta/pages?skip=1" -> Collection(<<BetaP2>>, "")
          [] u = "notes/pages" -> Collection(<<NotesP1>>, "")
          [] u = "old/pages" -> Collection(<<OldP1>>, "")
          [] u = "lower/pages" -> Collection(<<LowerP1>>, "")
          [] u = "journal/sections" -> Collection(<<Diary>>, "")
          [] u = "diary/pages" -> Collection(<<DiaryP1>>, "")]

\* the same without the SectionGroup Archive
WorkTree == [DeepTree EXCEPT !["projects/sectionGroups"] = Collection(<<>>, "")]

\* the sections of Projects come without the value wrapper
MalformedTree == [DeepTree EXCEPT !["projects/sections"] = NoValue]

\* the second response of Beta's pages is an HTTP error
FailingTree == [DeepTree EXCEPT !["beta/pages?skip=1"] = Failure("HTTPError")]

\* the notebooks come as a bare array
ListTree == [WorkTree EXCEPT ![NotebooksUrl] = BareList(<<Home, Work>>)]

\* Work holds a second SectionGroup, Journal, with the Section Diary
TwoGroupTree ==
    [DeepTree EXCEPT !["work/sectionGroups"] =
                        Collection(<<Projects, Journal>>, "")]

\* the response to one request is an object without value
MalformedTrees == {[TwoGroupTree EXCEPT ![u] = NoValue] : u \in Urls}

\* one request fails in transport
BrokenTrees ==
    {[TwoGroupTree EXCEPT ![u] = Failure("ConnectionError")] : u \in Urls}

Remotes ==
    {WorkTree, DeepTree, MalformedTree, FailingTree, ListTree, TwoGroupTree}
       \cup MalformedTrees \cup BrokenTrees

RequestedNotebooks == {"Work", "Home", "Missing"}

RequestedSections == {"", "Beta", "beta", "Gamma"}

\* what a later GET of the notebooks collection may answer, given what it
\* answered before: the same, a changed list, or a failure
NotebooksLater(r) ==
    {r, Collection(<<Home>>, ""), NoValue, Failure("HTTPError")}

\* ---- get_notebooks, find_notebook, NotebookNotFound
\* get_notebooks: the list it returns for the JSON _get_json gave
NotebooksOf(r) == IF r.kind \in {"dict", "list"} THEN r.value ELSE <<>>

\* find_notebook: the first notebook whose displayName equals the name
FindNotebook(nbs, name) ==
    LET hits == {i \in 1..Len(nbs) : nbs[i].displayName = name}
    IN  IF hits = {} THEN None
        ELSE nbs[CHOOSE i \in hits : \A j \in hits : i <= j]

DisplayNames(nbs) == [i \in 1..Len(nbs) |-> nbs[i].displayName]

\* "\n".join(names)
RECURSIVE JoinLines(_)
JoinLines(names) ==
    IF names = <<>> THEN <<>>
    ELSE IF Len(names) = 1 THEN names
    ELSE <<Head(names), "\n">> \o JoinLines(Tail(names))

\* NotebookNotFound._possible_notebooks, r being what its own GET of the
\* notebooks collection answered
PossibleNotebooks(r) ==
    IF r.kind = "error"
    THEN <<"Possible notebooks unknown due to an error.">>
    ELSE LET names == DisplayNames(NotebooksOf(r))
         IN  IF names # <<>>
             THEN <<"Maybe:\n">> \o JoinLines(names) \o <<"\n">>
             ELSE <<"Possible notebooks could not be determined.">>

\* NotebookNotFound(name, s)
NotebookNotFound(name, r) ==
    [type |-> "onenote.NotebookNotFound",
     msg |-> <<"Notebook \"", name, "\" not found. ">> \o PossibleNotebooks(r)]

\* the exception _get raises for a failed request
FetchError(r) == [type |-> r.err, msg |-> <<r.err>>]

\* OneNoteCore.get_notebook_pages: what leaves it when e is raised inside
CoreReraise(e, name) ==
    IF e.type = "onenote.NotebookNotFound"
    THEN [type |-> "core.NotebookNotFound",
          msg |-> <<"Notebook '", name, "' not found.">>]
    ELSE e

\* OneNoteInteractor.dump_notebook: both handlers log and re-raise
InteractorReraise(e) == e

\* ---- get_sections and get_pages
\* a get_sections that begins with the section groups of the parent
Frame_GroupsFirst(parent) ==
    [parent |-> parent, phase |-> "sectionGroupsUrl", items |-> <<>>]

\* a get_sections call that has not begun
Frame(parent) == [parent |-> parent, phase |-> "sectionsUrl", items |-> <<>>]

Top(stack) == stack[Len(stack)]

Pop(stack) == SubSeq(stack, 1, Len(stack) - 1)

SetTop(stack, f) == [stack EXCEPT ![Len(stack)] = f]

\* a filter that lets every section through
SectionSelected_NoFilter(section) == TRUE

\* str.lower on the display names of the remote trees
Lower(name) == IF name = "Beta" THEN "beta" ELSE name

\* a filter that compares without regard to case
SectionSelected_IgnoringCase(section) ==
    ~(wantSection # "" /\ Lower(section.displayName) # Lower(wantSection))

\* get_sections: the section is yielded, not skipped by the name filter
SectionSelected(section) ==
    ~(wantSection # "" /\ section.displayName # wantSection)

\* a pagination that never follows the link
NextLink_Ignored(pages_data) == ""

\* get_pages: url = pages_data.get("@odata.nextLink")
NextLink(pages_data) == pages_data.next

\* the generator runs from g up to its next request, its next yield or its
\* end: the loops and tests of get_pages and get_sections that need neither
RECURSIVE Advance(_)
AdvanceFrom(g) ==
    IF g.pc = "yielding"
    THEN IF g.pages # <<>> THEN g
         ELSE Advance([g EXCEPT !.pc = "pages", !.url = g.nextLink,
                                !.nextLink = ""])
    ELSE IF g.pc = "pages"
    THEN IF g.url # "" THEN g
         ELSE Advance([g EXCEPT !.pc = "sections"])
    ELSE IF g.pc = "sections"
    THEN IF g.stack = <<>> THEN [g EXCEPT !.pc = "exhausted"]
         ELSE LET f == Top(g.stack)
              IN  IF f.phase = "sectionsUrl"
                  THEN IF f.parent.sectionsUrl # "" THEN g
                       ELSE Advance([g EXCEPT !.stack = SetTop(g.stack,
                                [f EXCEPT !.phase = "sectionGroupsUrl"])])
                  ELSE IF f.phase = "sections"
                  THEN IF f.items = <<>>
                       THEN Advance([g EXCEPT !.stack = SetTop(g.stack,
                                [f EXCEPT !.phase = "sectionGroupsUrl"])])
                       ELSE IF SectionSelected(Head(f.items))
                       THEN Advance([g EXCEPT !.pc = "pages",
                                !.url = Head(f.items).pagesUrl,
                                !.stack = SetTop(g.stack,
                                    [f EXCEPT !.items = Tail(f.items)])])
                       ELSE Advance([g EXCEPT !.stack = SetTop(g.stack,
                                [f EXCEPT !.items = Tail(f.items)])])
                  ELSE IF f.phase = "sectionGroupsUrl"
                  THEN IF f.parent.sectionGroupsUrl # "" THEN g
                       ELSE Advance([g EXCEPT !.stack = Pop(g.stack)])
                  ELSE IF f.items = <<>>
                       THEN Advance([g EXCEPT !.stack = Pop(g.stack)])
                       ELSE Advance([g EXCEPT !.stack =
                                Append(SetTop(g.stack,
                                           [f EXCEPT !.items = Tail(f.items)]),
                                       Frame(Head(f.items)))])
    ELSE g

\* the same, of the frame once it is computed
Advance(frame) == CHOOSE r \in {AdvanceFrom(g) : g \in {frame}} : TRUE

\* the generator goes on from g inside the current next()
Resume(g) ==
    /\ gen' = Advance(g)
    /\ demand' = (Advance(g).pc # "exhausted")
    /\ UNCHANGED <<error, topError>>

\* e leaves onenote.get_notebook_pages, OneNoteCore.get_notebook_pages and
\* dump_notebook
Raise(e) ==
    /\ gen' = [gen EXCEPT !.pc = "raised"]
    /\ demand' = FALSE
    /\ error' = e
    /\ topError' = InteractorReraise(CoreReraise(e, wantNotebook))

\* the failures on record once the request of url was answered r, the
\* request being the next after those of fetched
Failed(url, r) ==
    IF r.kind = "error"
    THEN Append(failed, [url |-> url, at |-> Len(fetched) + 1,
                         err |-> FetchError(r)])
    ELSE failed

\* the consumer asks for the next page
Pull ==
    /\ ~demand
    /\ gen.pc \in {"start", "yielding"}
    /\ Resume(gen)
    /\ UNCHANGED <<remote, tooMany, failed, wantNotebook, wantSection, notebooks, fetched,
                   yielded, contents, contentGets>>
    /\ UNCHANGED authVars
    /\ UNCHANGED fetchVars
    /\ UNCHANGED dumpVars

\* the consumer stops consuming
Close ==
    /\ ~demand
    /\ gen.pc \in {"start", "yielding"}
    /\ gen' = [gen EXCEPT !.pc = "closed"]
    /\ UNCHANGED <<remote, tooMany, failed, wantNotebook, wantSection, demand, notebooks,
                   fetched, yielded, error, topError, contents, contentGets>>
    /\ UNCHANGED authVars
    /\ UNCHANGED fetchVars
    /\ UNCHANGED dumpVars

\* get_notebook_pages up to the call of get_pages
GetNotebooks ==
    /\ demand
    /\ gen.pc = "start"
    /\ fetched' = Append(fetched, NotebooksUrl)
    /\ failed' = Failed(NotebooksUrl, remote[NotebooksUrl])
    /\ LET r == remote[NotebooksUrl]
           notebook == FindNotebook(NotebooksOf(r), wantNotebook)
       IN  IF r.kind = "error"
           THEN /\ Raise(FetchError(r))
                /\ UNCHANGED notebooks
           ELSE /\ notebooks' = NotebooksOf(r)
                /\ IF notebook = None
                   THEN /\ gen' = [gen EXCEPT !.pc = "notfound"]
                        /\ UNCHANGED <<demand, error, topError>>
                   ELSE IF notebook.pagesUrl = ""
                   THEN Resume([gen EXCEPT !.pc = "sections",
                                           !.stack = <<Frame(notebook)>>])
                   ELSE Resume([gen EXCEPT !.pc = "pages",
                                           !.url = notebook.pagesUrl])
    /\ UNCHANGED <<remote, tooMany, wantNotebook, wantSection, yielded, contents,
                   contentGets>>
    /\ UNCHANGED authVars
    /\ UNCHANGED fetchVars
    /\ UNCHANGED dumpVars

\* raise NotebookNotFound(notebook_display_name, s): the constructor requests
\* the notebooks once more
RaiseNotebookNotFound ==
    /\ demand
    /\ gen.pc = "notfound"
    /\ fetched' = Append(fetched, NotebooksUrl)
    /\ \E r \in NotebooksLater(remote[NotebooksUrl]) :
          /\ failed' = Failed(NotebooksUrl, r)
          /\ Raise(NotebookNotFound(wantNotebook, r))
    /\ UNCHANGED <<remote, tooMany, wantNotebook, wantSection, notebooks, yielded,
                   contents, contentGets>>
    /\ UNCHANGED authVars
    /\ UNCHANGED fetchVars
    /\ UNCHANGED dumpVars

\* get_sections requests the sections of the parent on top of the stack
FetchSections ==
    /\ demand
    /\ gen.pc = "sections"
    /\ gen.stack # <<>>
    /\ Top(gen.stack).phase = "sectionsUrl"
    /\ LET f == Top(gen.stack)
           r == remote[f.parent.sectionsUrl]
       IN  /\ fetched' = Append(fetched, f.parent.sectionsUrl)
           /\ failed' = Failed(f.parent.sectionsUrl, r)
           /\ IF r.kind = "error" THEN Raise(FetchError(r))
              ELSE IF r.kind = "dict"
              THEN Resume([gen EXCEPT !.stack = SetTop(gen.stack,
                        [f EXCEPT !.phase = "sections", !.items = r.value])])
              ELSE Resume([gen EXCEPT !.stack = SetTop(gen.stack,
                        [f EXCEPT !.phase = "sectionGroupsUrl"])])
    /\ UNCHANGED <<remote, tooMany, wantNotebook, wantSection, notebooks, yielded,
                   contents, contentGets>>
    /\ UNCHANGED authVars
    /\ UNCHANGED fetchVars
    /\ UNCHANGED dumpVars

\* get_sections requests the section groups of the parent on top of the stack
FetchSectionGroups ==
    /\ demand
    /\ gen.pc = "sections"
    /\ gen.stack # <<>>
    /\ Top(gen.stack).phase = "sectionGroupsUrl"
    /\ LET f == Top(gen.stack)
           r == remote[f.parent.sectionGroupsUrl]
       IN  /\ fetched' = Append(fetched, f.parent.sectionGroupsUrl)
           /\ failed' = Failed(f.parent.sectionGroupsUrl, r)
           /\ IF r.kind = "error" THEN Raise(FetchError(r))
              ELSE IF r.kind = "dict"
              THEN Resume([gen EXCEPT !.stack = SetTop(gen.stack,
                        [f EXCEPT !.phase = "sectionGroups",
                                  !.items = r.value])])
              ELSE Resume([gen EXCEPT !.stack = Pop(gen.stack)])
    /\ UNCHANGED <<remote, tooMany, wantNotebook, wantSection, notebooks, yielded,
                   contents, contentGets>>
    /\ UNCHANGED authVars
    /\ UNCHANGED fetchVars
    /\ UNCHANGED dumpVars

\* a get_pages that gives up the rest of the traversal as well
HaltPagination_AndTraversal(g) == [g EXCEPT !.url = "", !.stack = <<>>]

\* a get_pages that requests the same URL again
HaltPagination_Never(g) == g

\* "Halting pagination for this source.": url = None
HaltPagination(g) == [g EXCEPT !.url = ""]

\* get_pages requests url
FetchPages ==
    /\ demand
    /\ gen.pc = "pages"
    /\ LET r == remote[gen.url]
       IN  /\ fetched' = Append(fetched, gen.url)
           /\ failed' = Failed(gen.url, r)
           /\ IF r.kind = "error" THEN Raise(FetchError(r))
              ELSE IF r.kind = "dict"
              THEN Resume([gen EXCEPT !.pc = "yielding", !.pages = r.value,
                                      !.nextLink = NextLink(r)])
              ELSE Resume(HaltPagination(gen))
    /\ UNCHANGED <<remote, tooMany, wantNotebook, wantSection, notebooks, yielded,
                   contents, contentGets>>
    /\ UNCHANGED authVars
    /\ UNCHANGED fetchVars
    /\ UNCHANGED dumpVars

\* get_pages yields the next page of pages_data["value"]
YieldPage ==
    /\ demand
    /\ gen.pc = "yielding"
    /\ yielded' = Append(yielded, Head(gen.pages))
    /\ gen' = [gen EXCEPT !.pages = Tail(gen.pages)]
    /\ demand' = FALSE
    /\ UNCHANGED <<remote, tooMany, failed, wantNotebook, wantSection, notebooks, fetched,
                   error, topError, contents, contentGets>>
    /\ UNCHANGED authVars
    /\ UNCHANGED fetchVars
    /\ UNCHANGED dumpVars

\* ---- get_page_content
PlaceholderContent == "<!-- Page has no contentUrl -->"

\* _get_content(s, url, logger_instance): its first statement evaluates the
\* name effective_logger, which the function does not define
GetContent(url) == [outcome |-> "NameError", content |-> "", gets |-> 0]

\* onenote.get_page_content(s, page), which OneNoteCore.get_page_content
\* calls, re-raising what it raises
GetPageContentOf(page) ==
    IF page.contentUrl = ""
    THEN [outcome |-> "returned", content |-> PlaceholderContent, gets |-> 0]
    ELSE GetContent(page.contentUrl)

\* get_page_content is called for the next page that was yielded
GetPageContent ==
    /\ Len(contents) < Len(yielded)
    /\ LET page == yielded[Len(contents) + 1]
           c == GetPageContentOf(page)
       IN  /\ contents' = Append(contents,
                 [page |-> page, outcome |-> c.outcome, content |-> c.content])
           /\ contentGets' = contentGets + c.gets
    /\ UNCHANGED <<remote, tooMany, failed, wantNotebook, wantSection, gen, demand, notebooks,
                   fetched, yielded, error, topError>>
    /\ UNCHANGED authVars
    /\ UNCHANGED fetchVars
    /\ UNCHANGED dumpVars

\* dump_notebook is about to iterate core.get_notebook_pages(name, section)
InitTraverse ==
    /\ AuthIdle
    /\ FetchIdle
    /\ remote \in Remotes
    /\ wantNotebook \in RequestedNotebooks
    /\ wantSection \in RequestedSections
    /\ gen = [pc |-> "start", stack |-> <<>>, url |-> "", pages |-> <<>>,
              nextLink |-> ""]
    /\ demand = FALSE
    /\ notebooks = <<>>
    /\ fetched = <<>>
    /\ yielded = <<>>
    /\ error = NoError
    /\ topError = NoError
    /\ contents = <<>>
    /\ contentGets = 0
    /\ tooMany = <<>>
    /\ failed = <<>>
    /\ DumpIdle

NextTraverse ==
    \/ Pull
    \/ Close
    \/ GetNotebooks
    \/ RaiseNotebookNotFound
    \/ FetchSections
    \/ FetchSectionGroups
    \/ FetchPages
    \/ YieldPage
    \/ GetPageContent

SpecTraverse == InitTraverse /\ [][NextTraverse]_vars

(***************************************************************************)
(* The traversal with a rate-limiting remote: a request of the traversal   *)
(* goes through _get, whose attempts may be answered 429 before the        *)
(* response of the remote tree arrives.                                    *)
(***************************************************************************)
\* 429 responses in one traversal
MaxTooMany == 2

\* the generator stands before a call of _get_json
AtRequest(g) ==
    \/ g.pc \in {"start", "notfound", "pages"}
    \/ /\ g.pc = "sections"
       /\ g.stack # <<>>
       /\ Top(g.stack).phase \in {"sectionsUrl", "sectionGroupsUrl"}

\* the URL of that call
RequestUrl(g) ==
    IF g.pc \in {"start", "notfound"} THEN NotebooksUrl
    ELSE IF g.pc = "pages" THEN g.url
    ELSE IF Top(g.stack).phase = "sectionsUrl"
    THEN Top(g.stack).parent.sectionsUrl
    ELSE Top(g.stack).parent.sectionGroupsUrl

\* one attempt of _inner_get for the request at hand that is answered 429:
\* tenacity sleeps and the request is made again, or the error is re-raised
TooManyRequests ==
    /\ demand
    /\ AtRequest(gen)
    /\ Len(tooMany) < MaxTooMany
    /\ tooMany' = Append(tooMany, [url |-> RequestUrl(gen),
                                   before |-> Len(fetched)])
    /\ \E r \in Responses :
          /\ r.status = 429
          /\ IF IsTooManyRequests(r) /\ ~StopNever(Len(tooMany) + 1)
             THEN UNCHANGED <<gen, demand, error, topError>>
             ELSE Raise(FetchError(Failure(AttemptError(r))))
    /\ UNCHANGED <<remote, failed, wantNotebook, wantSection, notebooks,
                   fetched, yielded, contents, contentGets>>
    /\ UNCHANGED authVars
    /\ UNCHANGED fetchVars
    /\ UNCHANGED dumpVars

NextRateLimited ==
    \/ TooManyRequests
    \/ Pull
    \/ GetNotebooks
    \/ RaiseNotebookNotFound
    \/ FetchSections
    \/ FetchSectionGroups
    \/ FetchPages
    \/ YieldPage

SpecRateLimited == InitTraverse /\ [][NextRateLimited]_vars

(***************************************************************************)
(* The traversal consumed to its end: the consumer asks for the next page  *)
(* whenever it can, and every request is answered by the remote tree after *)
(* finitely many 429 responses.  The remote may hold a cursor cycle, on    *)
(* which the while loop of get_pages does not end; the requests of one     *)
(* traversal are counted up to MaxFetches.                                 *)
(***************************************************************************)
\* completed requests of one traversal
MaxFetches == 16

\* the second response of Beta's pages links back to the first
CycleTree ==
    [DeepTree EXCEPT !["beta/pages?skip=1"] =
                        Collection(<<BetaP2>>, "beta/pages")]

\* get_pages requests url, while requests are counted
FetchPagesCounted ==
    /\ Len(fetched) < MaxFetches
    /\ FetchPages

InitConsumed ==
    /\ AuthIdle
    /\ FetchIdle
    /\ remote \in Remotes \cup {CycleTree}
    /\ wantNotebook \in RequestedNotebooks
    /\ wantSection \in RequestedSections
    /\ gen = [pc |-> "start", stack |-> <<>>, url |-> "", pages |-> <<>>,
              nextLink |-> ""]
    /\ demand = FALSE
    /\ notebooks = <<>>
    /\ fetched = <<>>
    /\ yielded = <<>>
    /\ error = NoError
    /\ topError = NoError
    /\ contents = <<>>
    /\ contentGets = 0
    /\ tooMany = <<>>
    /\ failed = <<>>
    /\ DumpIdle

\* the steps of the consumer and of the generator on the remote's answers
Consume ==
    \/ Pull
    \/ GetNotebooks
    \/ RaiseNotebookNotFound
    \/ FetchSections
    \/ FetchSectionGroups
    \/ FetchPagesCounted
    \/ YieldPage

NextConsumed == TooManyRequests \/ Consume

SpecConsumed ==
    InitConsumed /\ [][NextConsumed]_vars /\ WF_vars(Consume)

(***************************************************************************)
(* OneNoteInteractor.dump_notebook: the loop over the pages, from the      *)
(* creation of the pipeline to the return or the exception.  Of the        *)
(* pipeline only the calls made to it are recorded.                        *)
(***************************************************************************)
MaxStartPage == 2

MaxMaxPages == 3

StartPageChoices == {NoneInt} \cup 0..MaxStartPage

MaxPagesChoices == {NoneInt} \cup 0..MaxMaxPages

\* a page is handed over until the limit is exceeded
ReachedMax_Exceeded(exported) == maxPages # NoneInt /\ exported > maxPages

\* max_pages is not None and pages_exported >= max_pages
ReachedMax(exported) == maxPages # NoneInt /\ exported >= maxPages

\* should_process for the page that made page_counter equal to counter
ShouldProcess(counter) == ~(startPage # NoneInt /\ counter <= startPage)

\* the for statement asks core.get_notebook_pages(...) for the next page
DumpNext ==
    /\ dpc = "loop"
    /\ ~demand
    /\ gen.pc \in {"start", "yielding"}
    /\ Resume(gen)
    /\ dpc' = "next"
    /\ UNCHANGED <<remote, tooMany, failed, wantNotebook, wantSection, notebooks, fetched,
                   yielded, contents, contentGets>>
    /\ UNCHANGED <<mcp, startPage, maxPages, pageCounter, pagesExported, added,
                   doneCalls, totalPages>>
    /\ UNCHANGED authVars
    /\ UNCHANGED fetchVars

\* the body of the loop for the page just yielded
DumpBody ==
    /\ dpc = "next"
    /\ ~demand
    /\ gen.pc = "yielding"
    /\ LET page == yielded[Len(yielded)]
           exported == IF ShouldProcess(pageCounter + 1)
                       THEN pagesExported + 1 ELSE pagesExported
       IN  /\ pageCounter' = pageCounter + 1
           /\ added' = IF ShouldProcess(pageCounter + 1)
                       THEN Append(added, page) ELSE added
           /\ pagesExported' = exported
           /\ dpc' = IF ReachedMax(exported) THEN "finally" ELSE "loop"
    /\ UNCHANGED <<mcp, startPage, maxPages, doneCalls, totalPages>>
    /\ UNCHANGED travVars
    /\ UNCHANGED authVars
    /\ UNCHANGED fetchVars

\* the generator ended, by StopIteration or by an exception, which the except
\* clauses log and re-raise
DumpStop ==
    /\ dpc = "next"
    /\ ~demand
    /\ gen.pc \in {"exhausted", "raised"}
    /\ dpc' = "finally"
    /\ UNCHANGED <<mcp, startPage, maxPages, pageCounter, pagesExported, added,
                   doneCalls, totalPages>>
    /\ UNCHANGED travVars
    /\ UNCHANGED authVars
    /\ UNCHANGED fetchVars

\* a completion hook called at the end of the try block only
PipeDone_OnlyOnSuccess(calls) == IF gen.pc = "raised" THEN calls ELSE calls + 1

\* finally: pipe.done()
PipeDone(calls) == calls + 1

\* finally: pipe.done(); then the exception goes on, or the result is returned
DumpFinally ==
    /\ dpc = "finally"
    /\ doneCalls' = PipeDone(doneCalls)
    /\ IF gen.pc = "raised"
       THEN /\ dpc' = "raised"
            /\ UNCHANGED totalPages
       ELSE /\ dpc' = "returned"
            /\ totalPages' = pagesExported
    /\ UNCHANGED <<mcp, startPage, maxPages, pageCounter, pagesExported, added>>
    /\ UNCHANGED travVars
    /\ UNCHANGED authVars
    /\ UNCHANGED fetchVars

\* dump_notebook has created the pipeline and enters the try statement
InitDump ==
    /\ AuthIdle
    /\ FetchIdle
    /\ remote \in Remotes
    /\ wantNotebook \in RequestedNotebooks
    /\ wantSection \in RequestedSections
    /\ gen = [pc |-> "start", stack |-> <<>>, url |-> "", pages |-> <<>>,
              nextLink |-> ""]
    /\ demand = FALSE
    /\ notebooks = <<>>
    /\ fetched = <<>>
    /\ yielded = <<>>
    /\ error = NoError
    /\ topError = NoError
    /\ contents = <<>>
    /\ contentGets = 0
    /\ tooMany = <<>>
    /\ failed = <<>>
    /\ startPage \in StartPageChoices
    /\ maxPages \in MaxPagesChoices
    /\ dpc = "loop"
    /\ pageCounter = 0
    /\ pagesExported = 0
    /\ added = <<>>
    /\ doneCalls = 0
    /\ totalPages = NoneInt
    /\ mcp = NoTool

NextDump ==
    \/ DumpNext
    \/ DumpBody
    \/ DumpStop
    \/ DumpFinally
    \/ GetNotebooks
    \/ RaiseNotebookNotFound
    \/ FetchSections
    \/ FetchSectionGroups
    \/ FetchPages
    \/ YieldPage

SpecDump == InitDump /\ [][NextDump]_vars

(***************************************************************************)
(* main.py: the MCP tools list_notebooks_mcp and dump_notebook_mcp, each   *)
(* from the call of the tool to its return or its exception.  ctx is       *)
(* recorded by the messages given to ctx.info and ctx.error.               *)
(***************************************************************************)
\* the parameters, besides self, of OneNoteInteractor.list_notebooks
ListNotebooksParams == {}

\* the parameters, besides self, of OneNoteInteractor.dump_notebook
DumpNotebookParams ==
    {"notebook_name", "output_dir", "section_name", "max_pages", "start_page",
     "new_session"}

\* the keyword arguments of the call in list_notebooks_mcp
ListNotebooksKeywords == {"new_session"}

\* the keyword arguments of the call in dump_notebook_mcp
DumpNotebookKeywords ==
    {"notebook_name", "output_dir", "section_name", "max_pages", "start_page",
     "new_session"}

\* a call binds its keyword arguments to parameters of these names, or raises
\* TypeError
Binds(params, keywords) == keywords \subseteq params

\* how onenote_auth.get_session, called by OneNoteCore.__init__, can end
GetSessionOutcomes == {"returned", "TimeoutError"}

Returned(v) == [kind |-> "returned", value |-> v]

Raised(type) == [kind |-> "raised", value |-> [type |-> type, msg |-> <<type>>]]

NoArgs ==
    [notebook_name |-> "", section_name |-> "", max_pages |-> NoneInt,
     start_page |-> NoneInt, new_session |-> FALSE]

\* the calls of the tools: list_notebooks_mcp(ctx, new_session) and
\* dump_notebook_mcp(ctx, args)
ToolCalls ==
    {[tool |-> "list_notebooks_mcp", args |-> [NoArgs EXCEPT !.new_session = b]] :
        b \in BOOLEAN}
      \cup
    {[tool |-> "dump_notebook_mcp",
      args |-> [notebook_name |-> n, section_name |-> s, max_pages |-> m,
                start_page |-> p, new_session |-> b]] :
        n \in RequestedNotebooks, s \in RequestedSections,
        m \in MaxPagesChoices, p \in StartPageChoices, b \in BOOLEAN}

\* interactor.list_notebooks(**keywords): OneNoteCore.get_notebooks returns
\* the list onenote.get_notebooks made of the response r, or re-raises
InteractorListNotebooks(keywords, r) ==
    IF ~Binds(ListNotebooksParams, keywords) THEN Raised("TypeError")
    ELSE IF r.kind = "error" THEN [kind |-> "raised", value |-> FetchError(r)]
    ELSE Returned(NotebooksOf(r))

\* list_notebooks_mcp, from its first statement to its return or exception
McpListNotebooks ==
    /\ mcp.pc = "call"
    /\ mcp.tool = "list_notebooks_mcp"
    /\ \E ctor \in GetSessionOutcomes :
          LET op == InteractorListNotebooks(ListNotebooksKeywords,
                                            remote[NotebooksUrl])
              entered == Binds(ListNotebooksParams, ListNotebooksKeywords)
          IN  IF ctor # "returned"
              THEN /\ mcp' = [mcp EXCEPT !.pc = "raised",
                                         !.info = <<"Executing">>,
                                         !.out = Raised(ctor)]
                   /\ UNCHANGED fetched
              ELSE /\ fetched' = IF entered THEN Append(fetched, NotebooksUrl)
                                 ELSE fetched
                   /\ mcp' = [mcp EXCEPT
                         !.constructed = TRUE,
                         !.passed = IF entered THEN mcp.args ELSE NoArgs,
                         !.entered = entered,
                         !.pc = op.kind,
                         !.info = IF op.kind = "returned"
                                  THEN <<"Executing", "Found">>
                                  ELSE <<"Executing">>,
                         !.errors = IF op.kind = "returned" THEN <<>>
                                    ELSE <<op.value>>,
                         !.out = op]
    /\ UNCHANGED <<remote, tooMany, failed, wantNotebook, wantSection, gen, demand,
                   notebooks, yielded, error, topError, contents, contentGets>>
    /\ UNCHANGED <<startPage, maxPages, dpc, pageCounter, pagesExported, added,
                   doneCalls, totalPages>>
    /\ UNCHANGED authVars
    /\ UNCHANGED fetchVars

\* dump_notebook_mcp up to the try statement of dump_notebook
McpDumpStart ==
    /\ mcp.pc = "call"
    /\ mcp.tool = "dump_notebook_mcp"
    /\ \E ctor \in GetSessionOutcomes, renew \in GetSessionOutcomes :
          IF ctor # "returned"
          THEN /\ mcp' = [mcp EXCEPT !.pc = "raised",
                                     !.info = <<"Executing">>,
                                     !.out = Raised(ctor)]
               /\ UNCHANGED <<wantNotebook, wantSection, gen, startPage,
                              maxPages, dpc>>
          ELSE IF ~Binds(DumpNotebookParams, DumpNotebookKeywords)
          THEN /\ mcp' = [mcp EXCEPT !.pc = "raised", !.constructed = TRUE,
                                     !.info = <<"Executing">>,
                                     !.errors = <<Raised("TypeError").value>>,
                                     !.out = Raised("TypeError")]
               /\ UNCHANGED <<wantNotebook, wantSection, gen, startPage,
                              maxPages, dpc>>
          ELSE IF mcp.args.new_session /\ renew # "returned"
          THEN /\ mcp' = [mcp EXCEPT !.pc = "raised", !.constructed = TRUE,
                                     !.passed = mcp.args, !.entered = TRUE,
                                     !.info = <<"Executing">>,
                                     !.errors = <<Raised(renew).value>>,
                                     !.out = Raised(renew)]
               /\ UNCHANGED <<wantNotebook, wantSection, gen, startPage,
                              maxPages, dpc>>
          ELSE /\ mcp' = [mcp EXCEPT !.pc = "operating", !.constructed = TRUE,
                                     !.passed = mcp.args, !.entered = TRUE,
                                     !.info = <<"Executing">>]
               /\ wantNotebook' = mcp.args.notebook_name
               /\ wantSection' = mcp.args.section_name
               /\ maxPages' = mcp.args.max_pages
               /\ startPage' = mcp.args.start_page
               /\ gen' = [gen EXCEPT !.pc = "start"]
               /\ dpc' = "loop"
    /\ UNCHANGED <<remote, tooMany, failed, demand, notebooks, fetched, yielded, error,
                   topError, contents, contentGets>>
    /\ UNCHANGED <<pageCounter, pagesExported, added, doneCalls, totalPages>>
    /\ UNCHANGED authVars
    /\ UNCHANGED fetchVars

\* dump_notebook has returned or raised: the rest of dump_notebook_mcp
McpDumpEnd ==
    /\ mcp.pc = "operating"
    /\ dpc \in {"returned", "raised"}
    /\ mcp' = IF dpc = "returned"
              THEN [mcp EXCEPT !.pc = "returned",
                               !.info = Append(mcp.info, "Dumped"),
                               !.out = Returned([total_pages |-> totalPages])]
              ELSE [mcp EXCEPT !.pc = "raised",
                               !.errors = Append(mcp.errors, topError),
                               !.out = [kind |-> "raised", value |-> topError]]
    /\ UNCHANGED <<startPage, maxPages, dpc, pageCounter, pagesExported, added,
                   doneCalls, totalPages>>
    /\ UNCHANGED travVars
    /\ UNCHANGED authVars
    /\ UNCHANGED fetchVars

\* a tool is called
InitMcp ==
    /\ AuthIdle
    /\ FetchIdle
    /\ remote \in Remotes
    /\ wantNotebook = ""
    /\ wantSection = ""
    /\ gen = [pc |-> "off", stack |-> <<>>, url |-> "", pages |-> <<>>,
              nextLink |-> ""]
    /\ demand = FALSE
    /\ notebooks = <<>>
    /\ fetched = <<>>
    /\ yielded = <<>>
    /\ error = NoError
    /\ topError = NoError
    /\ contents = <<>>
    /\ contentGets = 0
    /\ tooMany = <<>>
    /\ failed = <<>>
    /\ startPage = NoneInt
    /\ maxPages = NoneInt
    /\ dpc = "off"
    /\ pageCounter = 0
    /\ pagesExported = 0
    /\ added = <<>>
    /\ doneCalls = 0
    /\ totalPages = NoneInt
    /\ \E c \in ToolCalls :
          mcp = [NoTool EXCEPT !.pc = "call", !.tool = c.tool, !.args = c.args]

NextMcp ==
    \/ McpListNotebooks
    \/ McpDumpStart
    \/ McpDumpEnd
    \/ NextDump

SpecMcp == InitMcp /\ [][NextMcp]_vars


(***************************************************************************)
(* Properties of session acquisition.  get_session is called at time 0, so *)
(* a stored expires_at is also its distance from the moment of the call.   *)
(***************************************************************************)
\* the request target inside the URL wait_for_auth_redirect returned: what
\* follows the scheme, "://" and the host
ReturnedTarget == SubSeq(redirectUrl, 4, Len(redirectUrl))

\* the path of a request target: what precedes its query string
PathComponent(target) ==
    LET marks == {i \in 1..Len(target) : target[i] = "?"}
    IN  IF marks = {} THEN target
        ELSE SubSeq(target, 1, (CHOOSE i \in marks : \A j \in marks : i <= j) - 1)

\* the requests, by arrival, whose target contains the redirect path
Containing == {i \in 1..Len(reqs) : Contains(<<"/auth">>, reqs[i].path)}

FirstContaining == CHOOSE i \in Containing : \A j \in Containing : i <= j

\* the errors by which an authentication can fail
AuthFailures == {"TimeoutError", "BrowserError", "ExchangeError"}

\* C1: for a stored record whose expires_at is more than 5 minutes ahead,
\* get_session(new=False) returns a session on exactly that token, and
\* session_from_user_auth is not invoked: no listener thread, no browser, no
\* token exchange, no write of the token file, which stays as it was.
C1_ValidTokenIsReused ==
    (~new /\ fileAtCall.kind = "record" /\ fileAtCall.exp > 300 /\ pc # "call")
        => /\ pc = "done"
           /\ outcome = "returned"
           /\ session = [kind |-> "saved", tok |-> fileAtCall.tok]
           /\ authCalls = 0
           /\ tpc = "none"
           /\ browserOpens = 0
           /\ exchanges = 0
           /\ fileWrites = 0
           /\ tokenFile = fileAtCall

C1_Witness ==
    /\ ~new
    /\ fileAtCall.kind = "record"
    /\ fileAtCall.exp = 301
    /\ pc = "done"
    /\ session.kind = "saved"

\* C2 as claimed: for a stored record whose expires_at is at most 300 s ahead
\* (300 s included) or in the past, get_session(new=False) invokes
\* session_from_user_auth exactly once and never returns a session built from
\* the stored token.
C2_Original ==
    (~new /\ fileAtCall.kind = "record" /\ fileAtCall.exp <= 300)
        => /\ session.kind # "saved"
           /\ authCalls <= 1
           /\ (pc # "call" => authCalls = 1 \/ pc = "auth")

\* C2 as amended: the same for a stored record whose expires_at is less than
\* 300 s ahead or in the past; at exactly 300 s the stored token is still
\* used.
C2_ExpiringTokenReauthenticates ==
    (~new /\ fileAtCall.kind = "record" /\ fileAtCall.exp < 300)
        => /\ session.kind # "saved"
           /\ authCalls <= 1
           /\ (pc # "call" => authCalls = 1 \/ pc = "auth")

C2_Witness ==
    /\ ~new
    /\ fileAtCall.kind = "record"
    /\ fileAtCall.exp = 299
    /\ pc = "done"
    /\ authCalls = 1
    /\ outcome = "returned"
    /\ session.kind = "fresh"

\* C3: get_session(new=True) deletes any existing token file before
\* authentication begins: whatever the file held, it does not exist when the
\* redirect listener is started and the browser is opened, and the stored
\* token is never used for the returned session.
C3_ForcedNewDeletesFirst ==
    (new /\ authCalls >= 1)
        => /\ fileAtStart.kind = "absent"
           /\ (pc = "sleeping" => tokenFile.kind = "absent")
           /\ session.kind # "saved"

\* C4: for every content of the token file that is no usable record (absent,
\* not JSON, JSON that is no object, an object without expires_at),
\* get_session(new=False) goes on to session_from_user_auth and fails, if at
\* all, with an authentication failure only.
C4_UnusableTokenReauthenticates ==
    (~new /\ fileAtCall.kind # "record")
        => /\ outcome \in {"none", "returned"} \cup AuthFailures
           /\ (pc # "call" => authCalls = 1 \/ pc = "auth")

\* C5: whenever session_from_user_auth has returned or raised, the redirect
\* listener no longer accepts connections and its thread has terminated,
\* under every interleaving of the caller and the thread.
C5_ListenerStoppedOnExit ==
    (authCalls >= 1 /\ pc = "done" /\ stopCalls = 1)
        => /\ ~socketOpen
           /\ tpc = "dead"

C7_Original ==
    redirectUrl # <<>>
        => /\ Containing # {}
           /\ redirectUrl = <<"http", "://", "localhost:8000">> \o reqs[FirstContaining].path
           /\ reqs[FirstContaining].resp = "body"

\* C7 as amended: the URL is as claimed, for the first request in arrival
\* order whose target contains the redirect path; before the URL is returned
\* that request has been sent the 200 status line and the headers, while the
\* confirmation body is written after the path is enqueued, possibly after the
\* URL is returned, and has been written by the time stop() has returned.
C7_RedirectUrlAndResponse ==
    redirectUrl # <<>>
        => /\ Containing # {}
           /\ redirectUrl = <<"http", "://", "localhost:8000">> \o reqs[FirstContaining].path
           /\ reqs[FirstContaining].resp \in {"headers", "body"}
           /\ (pc = "done" => reqs[FirstContaining].resp = "body")

C7_Witness ==
    /\ pc = "exchange"
    /\ Len(reqs) = 2
    /\ reqs[1].path = <<"/favicon.ico">>
    /\ redirectUrl = <<"http", "://", "localhost:8000", "/auth", "?", "code=c1">>
    /\ reqs[2].resp = "headers"

\* C8 as claimed: wait_for_auth_redirect returns only for a request whose path
\* is the redirect path /auth; a request for any other path, also one whose
\* text contains /auth elsewhere, is ignored.
C8_Original ==
    /\ redirectUrl # <<>> => PathComponent(ReturnedTarget) = <<"/auth">>
    /\ \A i \in 1..Len(ignored) : PathComponent(ignored[i]) # <<"/auth">>

\* C8 as amended: wait_for_auth_redirect returns only for a request whose
\* target (path and query string) contains the redirect path /auth as a
\* substring, anywhere; exactly the requests whose target does not contain it
\* are ignored.
C8_ReturnsOnlyContaining ==
    /\ redirectUrl # <<>> => Contains(<<"/auth">>, ReturnedTarget)
    /\ \A i \in 1..Len(ignored) : ~Contains(<<"/auth">>, ignored[i])

C8_Witness ==
    /\ redirectUrl # <<>>
    /\ PathComponent(ReturnedTarget) = <<"/favicon.ico">>
    /\ ignored = << <<"/favicon.ico">> >>

\* C9: stop() is idempotent and always safe: on a listener never started it
\* does nothing; a second call after a stop that closed the listener finds
\* the shutdown event set and does not block; and once a stop() that follows
\* start() has returned, the listener is shut down.
C9_StopIdempotentAndFinal ==
    /\ tpc = "none" => /\ ~socketOpen
                       /\ ~shutdownRequest
                       /\ pc # "shutdown"
    /\ (pc = "shutdown" /\ stopCalls >= 1 /\ ~socketOpen) => isShutDown
    /\ (tpc # "none" /\ stopCalls >= 1 /\ pc = "done")
           => /\ ~socketOpen
              /\ tpc \in {"exited", "dead"}

(***************************************************************************)
(* Properties of the resilient fetcher.                                    *)
(***************************************************************************)
\* the number of leading 429 responses of the history
RECURSIVE Leading429(_)
Leading429(rs) ==
    IF rs = <<>> \/ Head(rs).status # 429 THEN 0 ELSE 1 + Leading429(Tail(rs))

\* C10: for every n, when the server answers n times 429 and then with a
\* successful response, _get returns that response after exactly n+1 GET
\* requests and exactly n sleeps; no number of 429 responses makes _get give
\* up: after a 429 it always sleeps and tries again.
C10_RetriesUntilSuccess ==
    /\ fpc = "returned"
          => LET n == Leading429(responses)
             IN  /\ Len(responses) = n + 1
                 /\ responses[n + 1].status \in {200, 204}
                 /\ fresult = responses[n + 1]
                 /\ gets = n + 1
                 /\ Len(sleeps) = n
    /\ (responses # <<>> /\ responses[Len(responses)].status = 429)
          => /\ fpc \in {"sleeping", "get"}
             /\ Leading429(responses) = Len(responses)
    /\ fpc = "raised" => fresult.status # 429

C10_Witness ==
    /\ fpc = "returned"
    /\ Leading429(responses) = 4
    /\ gets = 5
    /\ Len(sleeps) = 4
    /\ fresult = [status |-> 200, body |-> "b2"]

\* C11: the waits slept between consecutive attempts are 60, 120, 240, 480,
\* 600, 600, ...: the first is 60 s, each further one is twice the one before
\* up to the ceiling of 600 s, every wait lies between 60 s and 600 s, and the
\* sequence is strictly increasing until the ceiling is reached (so the three
\* waits of 429, 429, 429, 200 are strictly increasing).
C11_WaitsDoubleFromFloor ==
    \A i \in 1..Len(sleeps) :
        /\ sleeps[i] >= MinRetryWait
        /\ sleeps[i] <= MinRetryWait * 10
        /\ sleeps[i] = Min(MinRetryWait * Pow2(i - 1), MinRetryWait * 10)
        /\ (i > 1 /\ sleeps[i - 1] < MinRetryWait * 10)
              => sleeps[i] > sleeps[i - 1]

\* C12: a response that is an HTTP error other than 429, or a transport
\* failure, ends _get at once, on the first attempt or after earlier 429
\* retries: it is the last response of the history, everything before it was
\* a 429, it is what _get raises, and no GET and no sleep follows it (one GET
\* per response, one sleep per 429 before it).
C12_OnlyTooManyRequestsIsRetried ==
    \A i \in 1..Len(responses) :
        responses[i].status \notin {200, 204, 429}
           => /\ i = Len(responses)
              /\ \A j \in 1..(i - 1) : responses[j].status = 429
              /\ fpc = "raised"
              /\ fresult = responses[i]
              /\ gets = i
              /\ Len(sleeps) = i - 1

C12_Witness ==
    /\ fpc = "raised"
    /\ Leading429(responses) = 2
    /\ Len(responses) = 3
    /\ fresult = [status |-> 0, body |-> "ConnectionError"]
    /\ gets = 3
    /\ Len(sleeps) = 2

(***************************************************************************)
(* Properties of the traversal.                                            *)
(***************************************************************************)
IsPrefix(a, b) == Len(a) <= Len(b) /\ a = SubSeq(b, 1, Len(a))

\* C13 as stated: for the tree Work (SectionGroup Projects with Alpha, two
\* pages, and Beta, two linked responses; top-level Section Notes, one page)
\* the unfiltered traversal yields Alpha-p1, Alpha-p2, Beta's pages in cursor
\* order and then Notes-p1, each once; filtered by Beta it yields exactly
\* Beta's pages from both responses in order.
C13_Original ==
    (remote = WorkTree /\ wantNotebook = "Work" /\ gen.pc = "exhausted")
       => /\ wantSection = ""
                => yielded = <<AlphaP1, AlphaP2, BetaP1, BetaP2, NotesP1>>
          /\ wantSection = "Beta" => yielded = <<BetaP1, BetaP2>>

\* C13: for that tree the unfiltered traversal yields Notes-p1 first (the
\* notebook's own sections come before its section groups), then Alpha-p1,
\* Alpha-p2, then Beta's pages in cursor order, each once: the pages yielded
\* so far are always a prefix of that sequence and are all of it when the
\* traversal ends; filtered by Beta it yields exactly Beta's pages from both
\* responses in order.
C13_FixtureOrder ==
    (remote = WorkTree /\ wantNotebook = "Work")
       => /\ wantSection = ""
                => /\ IsPrefix(yielded,
                         <<NotesP1, AlphaP1, AlphaP2, BetaP1, BetaP2>>)
                   /\ gen.pc = "exhausted" => Len(yielded) = 5
          /\ wantSection = "Beta"
                => /\ IsPrefix(yielded, <<BetaP1, BetaP2>>)
                   /\ gen.pc = "exhausted" => Len(yielded) = 2

C13_Witness ==
    /\ remote = WorkTree
    /\ wantNotebook = "Work"
    /\ wantSection = ""
    /\ gen.pc = "exhausted"
    /\ yielded = <<NotesP1, AlphaP1, AlphaP2, BetaP1, BetaP2>>
    /\ fetched = <<NotebooksUrl, "work/sections", "notes/pages",
                   "work/sectionGroups", "projects/sections", "alpha/pages",
                   "beta/pages", "beta/pages?skip=1", "projects/sectionGroups">>

\* ---- the remote tree, read independently of the traversal
Range(seq) == {seq[i] : i \in 1..Len(seq)}

\* the elements of the collection at url ("": the parent has no such URL)
Members(url) ==
    IF url # "" /\ remote[url].kind = "dict" THEN Range(remote[url].value)
    ELSE {}

\* every section below parent, at any depth
RECURSIVE AllSections(_)
AllSections(parent) ==
    Members(parent.sectionsUrl)
       \cup UNION {AllSections(g) : g \in Members(parent.sectionGroupsUrl)}

\* the URLs of the cursor chain that starts at url
RECURSIVE ChainUrls(_)
ChainUrls(url) ==
    IF url = "" THEN {}
    ELSE {url} \cup (IF remote[url].kind = "dict"
                     THEN ChainUrls(remote[url].next) ELSE {})

\* the pages of the responses of the cursor chain that starts at url
RECURSIVE ChainPages(_)
ChainPages(url) ==
    IF url = "" \/ remote[url].kind # "dict" THEN <<>>
    ELSE remote[url].value \o ChainPages(remote[url].next)

\* the notebook the traversal resolved (None before and when there is none)
Resolved == FindNotebook(notebooks, wantNotebook)

\* C14: with a section name filter F (a name: the code takes the empty string
\* as no filter), only sections whose displayName equals F exactly
\* (case-sensitive), at any depth of the section-group tree, are used: no URL of the page collection of another section is requested, every
\* yielded page is a page of a section named F, and a traversal that ends has
\* yielded every page of every section named F below the notebook, each once,
\* whatever the names of the section groups on the way.
C14_FilterSelectsExactName ==
    wantSection # ""
       => LET matching == {s \in AllSections(Resolved) :
                              s.displayName = wantSection}
              others == AllSections(Resolved) \ matching
              wanted == UNION {Range(ChainPages(s.pagesUrl)) : s \in matching}
          IN  /\ \A u \in Range(fetched) :
                    \A s \in others : u \notin ChainUrls(s.pagesUrl)
              /\ Range(yielded) \subseteq wanted
              /\ gen.pc = "exhausted"
                    => /\ Range(yielded) = wanted
                       /\ Len(yielded) = Cardinality(wanted)

C14_Witness ==
    /\ remote = DeepTree
    /\ wantNotebook = "Work"
    /\ wantSection = "Beta"
    /\ gen.pc = "exhausted"
    /\ yielded = <<BetaP1, BetaP2, OldP1>>
    /\ "archive/sections" \in Range(fetched)
    /\ "lower/pages" \notin Range(fetched)

\* ---- pagination
\* the URLs of all page collections below the resolved notebook
PageUrls == UNION {ChainUrls(s.pagesUrl) : s \in AllSections(Resolved)}

\* the pages of the page-collection responses received, in request order
RECURSIVE PagesReceived(_)
PagesReceived(urls) ==
    IF urls = <<>> THEN <<>>
    ELSE (IF Head(urls) \in PageUrls /\ remote[Head(urls)].kind = "dict"
          THEN remote[Head(urls)].value ELSE <<>>)
         \o PagesReceived(Tail(urls))

\* C15: get_pages requests a section's pagesUrl, yields the elements of the
\* response's value array in order, then requests its @odata.nextLink, and
\* stops at the first response without one: the pages yielded are, in order,
\* the pages of the page responses received (all of them when the traversal
\* ends); a response with a link is followed at once by the request of that
\* link; a page URL is requested only as a section's pagesUrl or as the link
\* of the response before it; and no page URL is requested twice.
C15_PaginationFollowsCursor ==
    /\ IsPrefix(yielded, PagesReceived(fetched))
    /\ gen.pc = "exhausted" => yielded = PagesReceived(fetched)
    /\ \A i \in 1..Len(fetched) :
          fetched[i] \in PageUrls
             => /\ \A j \in 1..Len(fetched) : fetched[j] = fetched[i] => j = i
                /\ \/ \E s \in AllSections(Resolved) : s.pagesUrl = fetched[i]
                   \/ /\ i > 1
                      /\ remote[fetched[i - 1]].kind = "dict"
                      /\ remote[fetched[i - 1]].next = fetched[i]
                /\ (remote[fetched[i]].kind = "dict"
                      /\ remote[fetched[i]].next # "")
                      => /\ gen.pc # "exhausted"
                            \/ i < Len(fetched)
                         /\ i < Len(fetched)
                               => fetched[i + 1] = remote[fetched[i]].next

C15_Witness ==
    /\ remote = DeepTree
    /\ wantNotebook = "Work"
    /\ wantSection = ""
    /\ gen.pc = "exhausted"
    /\ Len(yielded) = 7
    /\ \E i \in 1..Len(fetched) :
          /\ fetched[i] = "beta/pages"
          /\ fetched[i + 1] = "beta/pages?skip=1"

\* ---- errors of the traversal
\* the display names of the notebook list find_notebook searched
SearchedNames == Range(DisplayNames(notebooks))

\* C16: when no notebook of the searched list has the requested name,
\* get_notebook_pages raises NotebookNotFound, the message of the error
\* contains every display name of that very list, and nothing but the
\* notebooks collection has been requested.
C16_NotFoundNamesSearchedList ==
    /\ (gen.pc = "raised" /\ notebooks # <<>>
          /\ wantNotebook \notin SearchedNames)
          => error.type = "onenote.NotebookNotFound"
    /\ error.type = "onenote.NotebookNotFound"
          => /\ wantNotebook \notin SearchedNames
             /\ \A n \in SearchedNames : Contains(<<n>>, error.msg)
             /\ \A u \in Range(fetched) : u = NotebooksUrl

\* C17: the NotebookNotFound error that reaches the caller of dump_notebook,
\* through OneNoteCore.get_notebook_pages, has a message that includes the
\* notebook display names: every searched name that the message of
\* onenote.NotebookNotFound carries is in the message that arrives at the top.
C17_TopLevelMessageNamesNotebooks ==
    error.type = "onenote.NotebookNotFound"
       => /\ topError.type \in {"onenote.NotebookNotFound",
                                "core.NotebookNotFound"}
          /\ \A n \in SearchedNames :
                Contains(<<n>>, error.msg) => Contains(<<n>>, topError.msg)

\* ---- page content
\* the content bytes the remote serves at a contentUrl, named by the URL
ContentAt(url) == url

\* the pages among the first n yielded that have a contentUrl
WithContentUrl(n) == {i \in 1..n : yielded[i].contentUrl # ""}

\* C18: get_page_content of a page with a contentUrl returns the page and the
\* content of the response to a GET of that URL; of a page without contentUrl
\* it returns the page and the fixed placeholder, and requests nothing: one
\* GET per page with a contentUrl, none for the others.
C18_PageContentOrPlaceholder ==
    /\ \A i \in 1..Len(contents) :
          /\ contents[i].page = yielded[i]
          /\ contents[i].outcome = "returned"
          /\ contents[i].content =
                IF yielded[i].contentUrl = "" THEN PlaceholderContent
                ELSE ContentAt(yielded[i].contentUrl)
    /\ contentGets = Cardinality(WithContentUrl(Len(contents)))

(***************************************************************************)
(* Properties of the token file.                                           *)
(***************************************************************************)
\* get_session(new=False) has called _load_token and nothing has written the
\* token file since: tokenFile is the file as _load_token left it
AfterLoad == ~new /\ pc # "call" /\ fileWrites = 0

\* C19: _load_token on a token file whose bytes are not a valid token record
\* fails with the corrupt-token error and deletes the file, so that the next
\* _load_token fails as not-found; on an absent file it fails as not-found
\* and the file system is unchanged.
C19_CorruptTokenDeleted ==
    AfterLoad
       => /\ fileAtCall.kind \in {"notutf8", "notjson", "notobject", "noexpiry"}
                => /\ LoadOutcome(fileAtCall) = "IOError"
                   /\ tokenFile = NoToken
                   /\ LoadOutcome(tokenFile) = "FileNotFoundError"
          /\ fileAtCall.kind = "absent"
                => /\ LoadOutcome(fileAtCall) = "FileNotFoundError"
                   /\ tokenFile = fileAtCall

\* C20: a storage failure is raised to the caller: a failing write of the
\* token file does not end _save_token with a log line, and the session of a
\* token that is not on disk is not returned as authenticated and saved; a
\* failing removal of an existing token file does not end _delete_token with
\* a log line.
C20_StorageFailuresSurface ==
    /\ lastSave # "logged"
    /\ (fileWrites >= 1 /\ tokenFile.tok # "fresh")
          => /\ pendingExc = "IOError"
             /\ outcome # "returned"
    /\ lastDelete # "logged"

C22_LoopbackOnly ==
    \A i \in 1..Len(reqs) : reqs[i].iface = "loopback"

(***************************************************************************)
(* Properties of dump_notebook.                                            *)
(***************************************************************************)
\* the first position (0-based) of the window start_page, max_pages
WindowStart == IF startPage = NoneInt THEN 0 ELSE startPage

\* position i (0-based) of the traversal sequence lies in the window
InWindow(i) ==
    /\ i >= WindowStart
    /\ maxPages = NoneInt \/ i < WindowStart + maxPages

\* the pages of seq at the positions of the window, in order
RECURSIVE Windowed(_, _)
Windowed(seq, n) ==
    IF n = 0 THEN <<>>
    ELSE Windowed(seq, n - 1)
            \o (IF InWindow(n - 1) THEN <<seq[n]>> ELSE <<>>)

\* C23: dump_notebook hands to the pipeline exactly the pages at the 0-based
\* positions i, start_page <= i < start_page + max_pages, of the traversal
\* sequence, in order (from 0 when start_page is None, to the end when
\* max_pages is None), also for max_pages = 0; the total_pages returned is the
\* number of pages handed over and is at most max_pages.
C23_WindowOfPages ==
    /\ added = Windowed(yielded, pageCounter)
    /\ dpc = "returned"
          => /\ pageCounter = Len(yielded)
             /\ gen.pc # "exhausted"
                   => /\ maxPages # NoneInt
                      /\ Len(added) >= maxPages
             /\ totalPages = Len(added)
             /\ maxPages # NoneInt => totalPages <= maxPages


(***************************************************************************)
(* Properties of the MCP tools.                                            *)
(***************************************************************************)
\* the tool has ended and its OneNoteInteractor had been constructed
ToolEnded == mcp.pc \in {"returned", "raised"} /\ mcp.constructed

\* C24: each MCP tool forwards its arguments unchanged to the operation of
\* OneNoteInteractor it stands for (list_notebooks, dump_notebook) and, when
\* the operation returns, returns that result and reports no error:
\* list_notebooks_mcp on a remote that answers the notebooks request returns
\* the notebooks of the answer, dump_notebook_mcp returns the dictionary of
\* dump_notebook; when the operation fails, the tool reports the failure
\* exactly once through ctx.error, raises the same exception and reports no
\* success message.
C24_ToolsForwardAndReport ==
    ToolEnded =>
       /\ mcp.entered
       /\ mcp.passed = mcp.args
       /\ dpc # "off" => /\ wantNotebook = mcp.args.notebook_name
                         /\ wantSection = mcp.args.section_name
                         /\ maxPages = mcp.args.max_pages
                         /\ startPage = mcp.args.start_page
       /\ (mcp.tool = "list_notebooks_mcp"
              /\ remote[NotebooksUrl].kind # "error")
             => /\ mcp.pc = "returned"
                /\ mcp.out.value = NotebooksOf(remote[NotebooksUrl])
       /\ (mcp.tool = "dump_notebook_mcp" /\ dpc = "returned")
             => /\ mcp.pc = "returned"
                /\ mcp.out.value = [total_pages |-> totalPages]
       /\ mcp.pc = "returned" => mcp.errors = <<>>
       /\ mcp.pc = "raised"
             => /\ mcp.errors = <<mcp.out.value>>
                /\ dpc = "raised" => mcp.out.value = topError
                /\ "Found" \notin Range(mcp.info)
                /\ "Dumped" \notin Range(mcp.info)


\* ---- the order of the traversal
\* the elements of the collection at url, in the order of the response
Items(url) ==
    IF url # "" /\ remote[url].kind = "dict" THEN remote[url].value ELSE <<>>

\* the pages of the sections of secs that carry the wanted name, section by
\* section, each section's pages through its cursor chain
RECURSIVE PagesOfSections(_)
PagesOfSections(secs) ==
    IF secs = <<>> THEN <<>>
    ELSE (IF wantSection = "" \/ Head(secs).displayName = wantSection
          THEN ChainPages(Head(secs).pagesUrl) ELSE <<>>)
         \o PagesOfSections(Tail(secs))

\* the pages below a container: those of its own sections, then those below
\* each of its section groups in turn
RECURSIVE DepthFirst(_)
RECURSIVE DepthFirstEach(_)
DepthFirst(container) ==
    PagesOfSections(Items(container.sectionsUrl))
       \o DepthFirstEach(Items(container.sectionGroupsUrl))

DepthFirstEach(groups) ==
    IF groups = <<>> THEN <<>>
    ELSE DepthFirst(Head(groups)) \o DepthFirstEach(Tail(groups))

\* C25: the traversal is depth-first with sections before groups: for every
\* container (the notebook, a section group) the pages of its own matching
\* sections are yielded, in API order, before any page of a section reached
\* through one of its section groups, and the section groups are expanded in
\* API order, each completely before the next; so the pages yielded are at
\* every moment the beginning of that order, and all of it when the
\* traversal ends.
C25_SectionsBeforeGroupsDepthFirst ==
    (Resolved # None /\ Resolved.pagesUrl = "")
       => /\ IsPrefix(yielded, DepthFirst(Resolved))
          /\ gen.pc = "exhausted" => yielded = DepthFirst(Resolved)

C25_Witness ==
    /\ remote = TwoGroupTree
    /\ wantNotebook = "Work"
    /\ wantSection = ""
    /\ gen.pc = "exhausted"
    /\ yielded = <<NotesP1, AlphaP1, AlphaP2, BetaP1, BetaP2, OldP1, LowerP1,
                   DiaryP1>>


\* ---- a failed authentication and the token file
\* C26: in session_from_user_auth the token file is written only after the
\* token exchange has succeeded; when the wait for the redirect times out or
\* the exchange fails, the call raises that failure, the exchange has been
\* attempted at most once (not at all after a timeout), no second
\* authentication is started, no session is built, and the token file is as
\* it was when session_from_user_auth was entered.
C26_FailedAuthLeavesTokenFile ==
    /\ fileWrites > 0 => (exchanges = 1 /\ pendingExc = "none")
    /\ pendingExc \in {"TimeoutError", "ExchangeError"}
          => /\ tokenFile = fileAtStart
             /\ fileWrites = 0
             /\ authCalls = 1
             /\ exchanges = (IF pendingExc = "ExchangeError" THEN 1 ELSE 0)
             /\ session = NoSession
             /\ pc = "done" => outcome = pendingExc

C26_Witness ==
    /\ pc = "done"
    /\ outcome = "ExchangeError"
    /\ exchanges = 1
    /\ fileAtStart.kind = "record"
    /\ tokenFile = fileAtStart


\* ---- rate limiting and the traversal
\* the exceptions the remote tree itself answers with
RemoteErrors ==
    {FetchError(remote[u]) : u \in {v \in Urls : remote[v].kind = "error"}}

\* C27: rate limiting is invisible above the fetcher: whatever 429 responses
\* precede the responses of the remote tree, the pages yielded are those of
\* the tree in its order (at every moment a beginning of it, and all of it
\* when the traversal ends: none skipped, duplicated or reordered), a request
\* answered 429 is repeated for the same URL before any other URL is
\* requested, and the only errors raised are those the tree answers with and
\* NotebookNotFound.
C27_RateLimitingInvisible ==
    /\ (Resolved # None /\ Resolved.pagesUrl = "")
          => /\ IsPrefix(yielded, DepthFirst(Resolved))
             /\ gen.pc = "exhausted" => yielded = DepthFirst(Resolved)
    /\ \A k \in 1..Len(tooMany) :
          IF tooMany[k].before < Len(fetched)
          THEN fetched[tooMany[k].before + 1] = tooMany[k].url
          ELSE AtRequest(gen) /\ RequestUrl(gen) = tooMany[k].url
    /\ gen.pc = "raised"
          => error \in RemoteErrors
                \/ error.type = "onenote.NotebookNotFound"
    /\ gen.pc # "raised" => error = NoError

C27_Witness ==
    /\ remote = TwoGroupTree
    /\ wantNotebook = "Work"
    /\ wantSection = ""
    /\ gen.pc = "exhausted"
    /\ Len(yielded) = 8
    /\ Len(tooMany) = MaxTooMany
    /\ tooMany[1].url = NotebooksUrl
    /\ tooMany[2].url = "beta/pages?skip=1"


\* ---- failures of requests
\* C28: a non-429 HTTP error or a transport failure on any request made
\* during a traversal (notebooks, sections, section groups, a page
\* collection) leaves get_notebook_pages unmodified, and OneNoteCore and
\* dump_notebook after it, and ends the page sequence: it is the only
\* failure, the exception raised is that of the failed request, no request
\* follows it, and the pages yielded are those of the responses received
\* before it.
C28_FailurePropagatesUnmodified ==
    failed # <<>>
       => /\ Len(failed) = 1
          /\ gen.pc = "raised"
          /\ error = failed[1].err
          /\ topError = failed[1].err
          /\ Len(fetched) = failed[1].at
          /\ yielded = PagesReceived(SubSeq(fetched, 1, failed[1].at - 1))


\* ---- responses without the value wrapper
\* the requests answered by an object without value
MalformedFetched == {u \in Range(fetched) : remote[u].kind = "novalue"}

\* the traversal goes on as if the malformed collection were empty and the
\* malformed page response the last of its section
GoesOnAsIfEmpty ==
    /\ gen.pc # "raised"
    /\ IsPrefix(yielded, DepthFirst(Resolved))
    /\ gen.pc = "exhausted" => yielded = DepthFirst(Resolved)

RECURSIVE AllContainers(_)
AllContainers(c) ==
    {c} \cup UNION {AllContainers(g) : g \in Members(c.sectionGroupsUrl)}

\* a request of the traversal completes in this step
Requested == fetched' # fetched

\* the consumer has asked for a page and has consumed every page of every
\* response received so far
OnDemand ==
    /\ demand
    /\ dpc = "next"
    /\ yielded = PagesReceived(fetched)
    /\ pageCounter = Len(yielded)
    /\ (maxPages # NoneInt /\ pageCounter > 0) => pagesExported < maxPages

\* the pages of the own sections of the container whose section groups are
\* requested in this step have been consumed
OwnSectionsConsumed ==
    \A c \in AllContainers(Resolved) :
       (c.sectionGroupsUrl # ""
           /\ fetched' = Append(fetched, c.sectionGroupsUrl))
          => Range(PagesOfSections(Items(c.sectionsUrl)))
                \subseteq Range(SubSeq(yielded, 1, pageCounter))

\* C30: the requests of a traversal happen strictly on demand: none before
\* the consumer asks for the first page; the page collection of a later
\* section and the next cursor URL only after every page of all earlier
\* responses has been consumed; a section-group collection only after the
\* pages of the container's own sections have been consumed; and none once
\* the consumer has stopped consuming, as dump_notebook does on reaching
\* max_pages.
C30_RequestsOnDemand ==
    [][Requested => (OnDemand /\ OwnSectionsConsumed)]_vars

C30_Witness ==
    /\ remote = TwoGroupTree
    /\ wantNotebook = "Work"
    /\ wantSection = ""
    /\ startPage = NoneInt
    /\ maxPages = 2
    /\ dpc = "returned"
    /\ yielded = <<NotesP1, AlphaP1>>
    /\ fetched = <<NotebooksUrl, "work/sections", "notes/pages",
                   "work/sectionGroups", "projects/sections", "alpha/pages">>


\* ---- termination
\* the cursor chain that starts at url ends within n responses
RECURSIVE EndsWithin(_, _)
EndsWithin(url, n) ==
    \/ url = ""
    \/ remote[url].kind # "dict"
    \/ n > 0 /\ EndsWithin(remote[url].next, n - 1)

\* no @odata.nextLink chain of the remote tree holds a cycle
NoCursorCycle == \A u \in Urls : EndsWithin(u, Cardinality(Urls))

\* the traversal has ended: StopIteration or an exception
Ended == gen.pc \in {"exhausted", "raised"}

\* C31: the page sequence is finite: on a remote tree whose @odata.nextLink
\* chains hold no cycle, with finitely many 429 responses, a traversal that
\* is consumed to its end terminates after finitely many requests; only a
\* cursor cycle makes it run forever.
C31_TraversalTerminates == NoCursorCycle => <>Ended

C31_Witness ==
    /\ remote = TwoGroupTree
    /\ wantNotebook = "Work"
    /\ wantSection = ""
    /\ gen.pc = "exhausted"
    /\ Len(fetched) = 14
    /\ Len(tooMany) = MaxTooMany
    /\ tooMany[MaxTooMany].url = "diary/pages"


\* ---- the completion hook of the pipeline
\* dump_notebook has been left
DumpLeft == dpc \in {"returned", "raised"}

\* C32: in dump_notebook, once the pipeline exists, pipe.done() is called
\* exactly once on every exit path (the traversal exhausted, max_pages
\* reached, NotebookNotFound, any error of a request): it has been called
\* once when dump_notebook is left and is called only on leaving, after the
\* last pipe.add_page, and no add_page follows it.
C32_DoneExactlyOnceAfterLastPage ==
    [][/\ doneCalls' \in {0, 1}
       /\ DumpLeft' <=> doneCalls' = 1
       /\ added' # added => (doneCalls = 0 /\ doneCalls' = 0)]_vars

C32_Witness ==
    /\ dpc = "raised"
    /\ error.type = "ConnectionError"
    /\ Len(added) = 2
    /\ doneCalls = 1


(***************************************************************************)
(* C33: one export run authenticates interactively at most once.           *)
(***************************************************************************)
\* C33: in a run made of OneNoteInteractor() and dump_notebook, whatever the
\* token file at the start and whatever new_session, the redirect listener is
\* started at most once and the browser is opened at most once
C33_AtMostOneInteractiveAuth ==
    /\ authCalls <= 1
    /\ browserOpens <= 1


(***************************************************************************)
(* C34: no redirect is lost between the listener thread and the caller.    *)
(***************************************************************************)
\* the requests do_GET has put on the queue of the listener
Handled == IF tpc = "put" THEN served - 1 ELSE served

\* their targets, in the order the listener took the requests
PutPaths == [i \in 1..Handled |-> reqs[i].path]

\* the targets the waiting caller has taken off the queue
Dequeued == SubSeq(PutPaths, 1, Len(PutPaths) - Len(queue))

\* what was put is, in the order of arrival, what the caller dropped, then
\* what it returned, then what is still queued: nothing is put twice, lost or
\* reordered, and nothing of another listener's queue is in it
Conserved ==
    /\ Len(queue) <= Len(PutPaths)
    /\ queue = SubSeq(PutPaths, Len(Dequeued) + 1, Len(PutPaths))
    /\ IF redirectUrl = <<>>
       THEN Dequeued = ignored
       ELSE /\ Len(Dequeued) = Len(ignored) + 1
            /\ SubSeq(Dequeued, 1, Len(ignored)) = ignored
            /\ redirectUrl = FullRedirectUrl(Dequeued[Len(Dequeued)])
            /\ Matches(Dequeued[Len(Dequeued)])
    /\ \A i \in 1..Len(ignored) : ~Matches(ignored[i])

\* the wait gives up in this step
WaitGivesUp == pendingExc # "TimeoutError" /\ pendingExc' = "TimeoutError"

\* C34: every request the listener handles puts its target on the queue
\* exactly once; the caller takes the targets in the order of arrival and
\* returns the first matching one, also when it was put before
\* wait_for_auth_redirect was called; the wait gives up only when no matching
\* target was put; a second listener of the run starts from a queue of its own
C34_NoRedirectLost ==
    [][/\ Conserved'
       /\ WaitGivesUp => \A i \in 1..Len(PutPaths) : ~Matches(PutPaths[i])]_vars

\* a matching request was handled after start() and before the wait began
C34_Witness ==
    /\ pc = "sleeping"
    /\ queue # <<>>
    /\ Matches(queue[1])


(***************************************************************************)
(* C35: the traversal is complete.  Remote trees whose notebooks, sections *)
(* or section-groups collection comes in two parts linked by               *)
(* @odata.nextLink, and the traversal on them.                             *)
(***************************************************************************)
SplitUrls ==
    Urls \cup {"notebooks?skip=1", "work/sections?skip=1",
               "work/sectionGroups?skip=1"}

\* DeepTree with no second part at any of the three URLs
UnsplitTree ==
    [u \in SplitUrls |-> IF u \in Urls THEN DeepTree[u] ELSE Collection(<<>>, "")]

\* the sections of Work in two parts: Notes, then Diary
SplitSectionsTree ==
    [UnsplitTree EXCEPT
        !["work/sections"] = Collection(<<Notes>>, "work/sections?skip=1"),
        !["work/sections?skip=1"] = Collection(<<Diary>>, "")]

\* the section groups of Work in two parts: Projects, then Journal
SplitGroupsTree ==
    [UnsplitTree EXCEPT
        !["work/sectionGroups"] =
            Collection(<<Projects>>, "work/sectionGroups?skip=1"),
        !["work/sectionGroups?skip=1"] = Collection(<<Journal>>, "")]

\* the notebooks in two parts: Home, then Work
SplitNotebooksTree ==
    [UnsplitTree EXCEPT
        ![NotebooksUrl] = Collection(<<Home>>, "notebooks?skip=1"),
        !["notebooks?skip=1"] = Collection(<<Work>>, "")]

SplitTrees == {SplitSectionsTree, SplitGroupsTree, SplitNotebooksTree}

\* dump_notebook is about to iterate core.get_notebook_pages(name, section)
\* on one of the trees, split or not
InitSplit ==
    /\ AuthIdle
    /\ FetchIdle
    /\ remote \in Remotes \cup SplitTrees
    /\ wantNotebook \in RequestedNotebooks
    /\ wantSection \in RequestedSections
    /\ gen = [pc |-> "start", stack |-> <<>>, url |-> "", pages |-> <<>>,
              nextLink |-> ""]
    /\ demand = FALSE
    /\ notebooks = <<>>
    /\ fetched = <<>>
    /\ yielded = <<>>
    /\ error = NoError
    /\ topError = NoError
    /\ contents = <<>>
    /\ contentGets = 0
    /\ tooMany = <<>>
    /\ failed = <<>>
    /\ DumpIdle

SpecSplit == InitSplit /\ [][NextTraverse]_vars

\* the elements of the collection at url, through all its parts
WholeCollection(url) == ChainPages(url)

\* the notebooks the API holds
AllNotebooks ==
    IF remote[NotebooksUrl].kind = "list" THEN remote[NotebooksUrl].value
    ELSE WholeCollection(NotebooksUrl)

\* the pages of the sections secs, section by section
RECURSIVE PagesOfAll(_)
PagesOfAll(secs) ==
    IF secs = <<>> THEN <<>>
    ELSE ChainPages(Head(secs).pagesUrl) \o PagesOfAll(Tail(secs))

\* the pages of every section reachable from a container through any nesting
\* of section groups
RECURSIVE ReachablePages(_)
RECURSIVE ReachableEach(_)
ReachablePages(container) ==
    IF container.pagesUrl # "" THEN ChainPages(container.pagesUrl)
    ELSE PagesOfAll(WholeCollection(container.sectionsUrl))
            \o ReachableEach(WholeCollection(container.sectionGroupsUrl))

ReachableEach(groups) ==
    IF groups = <<>> THEN <<>>
    ELSE ReachablePages(Head(groups)) \o ReachableEach(Tail(groups))

\* C35: with no section filter, a traversal that ends without an exception
\* has yielded every page of every section reachable from the notebook of the
\* requested name, each exactly once, and the notebook is reported missing
\* only when the API holds none of that name; also when a notebooks, sections
\* or section-groups collection comes in several parts linked by
\* @odata.nextLink
C35_TraversalComplete ==
    wantSection = ""
       => LET notebook == FindNotebook(AllNotebooks, wantNotebook)
          IN  /\ gen.pc = "exhausted"
                    => /\ notebook # None
                       /\ yielded = ReachablePages(notebook)
              /\ error.type = "onenote.NotebookNotFound" => notebook = None

====
